---- MODULE Spec2Model ----
(***************************************************************************)
(* Query-resolution and caching layer of the football chatbot.             *)
(*                                                                         *)
(*   src/src/nlp/resolver.py  identity resolver, standings cache (SQLite)  *)
(*   src/src/utils.py         normalizer, supported leagues                *)
(*   src/src/api_client.py    remote fetcher                               *)
(*   src/src/main.py          query dispatcher, PENDING                    *)
(*                                                                         *)
(* Text is a sequence of one-character strings, so that str.lower(),       *)
(* str.strip() and COLLATE NOCASE are computed character by character.     *)
(* Python's None is modelled as 0 for numeric identifiers (the provider's  *)
(* ids are positive, and the code tests them by truthiness), as the empty  *)
(* sequence for names, and as the empty option <<>> elsewhere (Some(x) is  *)
(* <<x>>).                                                                 *)
(*                                                                         *)
(* The remote provider is the environment: what a remote request answers   *)
(* is an input of the step that issues it, drawn from a small set.         *)
(***************************************************************************)
EXTENDS Integers, Sequences, FiniteSets, TLC

VARIABLES
    team,             \* SQLite table team(id PRIMARY KEY, name, country)
    player,           \* SQLite table player(id PRIMARY KEY, name, common)
    standings_cache,  \* SQLite table standings_cache, (league, season) -> json
    team_memo,        \* lru_cache of team_name_to_id
    player_memo,      \* lru_cache of player_name_to_id
    league_memo,      \* lru_cache of league_name_to_id
    api_memo,         \* lru_caches of api_client's get_* functions
    PENDING,          \* main.PENDING: the stalled query, if any
    written,          \* history: the keys cache_standings has been called with
    call,             \* history: the last resolver call and what it did
    turn              \* history: the last turn of the dispatcher

vars == <<team, player, standings_cache, team_memo, player_memo, league_memo,
          api_memo, PENDING, written, call, turn>>

None == 0
NoName == <<>>
Nothing == <<>>
Some(x) == <<x>>

\* A local name bound to a value that is computed once:
\* let([x \in {e} |-> body]) is body with x standing for the value of e.
let(f) == f[CHOOSE x \in DOMAIN f : TRUE]
EmptyMap == [k \in {} |-> k]

(***************************************************************************)
(* Text                                                                    *)
(***************************************************************************)
UpperCase == <<"A","B","C","D","E","F","G","H","I","J","K","L","M","N","O","P","Q","R","S","T","U","V","W","X","Y","Z">>
LowerCase == <<"a","b","c","d","e","f","g","h","i","j","k","l","m","n","o","p","q","r","s","t","u","v","w","x","y","z">>
DigitChars == <<"0","1","2","3","4","5","6","7","8","9">>

\* ASCII case folding of one character (str.lower() and NOCASE agree on ASCII).
lower_char(c) ==
    IF \E i \in DOMAIN UpperCase : UpperCase[i] = c
    THEN LowerCase[CHOOSE i \in DOMAIN UpperCase : UpperCase[i] = c]
    ELSE c

lower(s) == [i \in DOMAIN s |-> lower_char(s[i])]

\* SQLite: a = b COLLATE NOCASE; a NULL operand never compares equal.
nocase_eq(a, b) == a # NoName /\ b # NoName /\ lower(a) = lower(b)

RECURSIVE digits(_)
digits(n) == IF n < 10 THEN <<DigitChars[n + 1]>>
             ELSE Append(digits(n \div 10), DigitChars[(n % 10) + 1])

\* str(n) for an integer n
int_text(n) == IF n < 0 THEN <<"-">> \o digits(0 - n) ELSE digits(n)

digit_value(c) == CHOOSE d \in 0..9 : DigitChars[d + 1] = c

RECURSIVE digits_value(_)
digits_value(t) == IF t = <<>> THEN 0
                   ELSE 10 * digits_value(SubSeq(t, 1, Len(t) - 1)) + digit_value(t[Len(t)])

\* int(t) for a text t holding an optional sign and decimal digits
parse_int(t) == IF t[1] = "-" THEN 0 - digits_value(Tail(t)) ELSE digits_value(t)

(***************************************************************************)
(* Remote requests.  A request is the endpoint with its query parameters;  *)
(* a parameter the code leaves out is None.                                *)
(***************************************************************************)
req_teams(name, league_id, season) ==
    [ep |-> "teams", name |-> name, league |-> league_id, season |-> season]
req_players(name, league_id, season) ==
    [ep |-> "players", search |-> name, league |-> league_id, season |-> season]

(***************************************************************************)
(* Identity resolver                                                       *)
(***************************************************************************)
\* SELECT id FROM <table> WHERE name = ? COLLATE NOCASE: the ids of the rows
\* that match.
select_ids(tbl, name) == {r.id : r \in {x \in tbl : nocase_eq(x.name, name)}}

\* ... LIMIT 1: the index on name NOCASE orders equal names by rowid, which is
\* the INTEGER PRIMARY KEY, so the first row is the one with the least id.
select_id(tbl, name) ==
    let([ids \in {select_ids(tbl, name)} |->
        IF ids = {} THEN None ELSE CHOOSE i \in ids : \A j \in ids : i <= j])

InsertOrReplace(tbl, row) == {r \in tbl : r.id # row.id} \cup {row}

\* INSERT OR IGNORE: a row whose primary key is taken is dropped.
insert_or_ignore(tbl, row) ==
    IF \E r \in tbl : r.id = row.id THEN tbl ELSE tbl \cup {row}

\* The body of team_name_to_id / player_name_to_id: persistent cache first, then
\* the remote search, whose answer is resp (the "response" list); the first
\* result is inserted and its id returned.
lookup_body(tbl, name, request, resp) ==
    IF select_ids(tbl, name) # {}
    THEN [ret |-> select_id(tbl, name), tbl |-> tbl, reqs |-> <<>>]
    ELSE IF resp # <<>>
         THEN [ret |-> resp[1].id, tbl |-> insert_or_ignore(tbl, resp[1]),
               reqs |-> <<request>>]
         ELSE [ret |-> None, tbl |-> tbl, reqs |-> <<request>>]

NoMemo(memo, key, r) ==
    [ret |-> r.ret, memo |-> memo, tbl |-> r.tbl, reqs |-> r.reqs]

\* functools.lru_cache around a body whose outcome is r: a stored key answers
\* without running the body; otherwise the body runs and its return value,
\* None included, is stored.  (maxsize is 4096; eviction is out of reach of
\* the bounds here.)
lru_cache(memo, key, r) ==
    IF key \in DOMAIN memo
    THEN [ret |-> memo[key], memo |-> memo, tbl |-> r.tblIn, reqs |-> <<>>]
    ELSE [ret |-> r.ret, memo |-> (key :> r.ret) @@ memo, tbl |-> r.tbl,
          reqs |-> r.reqs]

team_name_to_id(memo, tbl, name, league_id, season, resp) ==
    let([b \in {lookup_body(tbl, name, req_teams(name, league_id, season), resp)} |->
        lru_cache(memo, <<name, league_id, season>>,
                  [ret |-> b.ret, tbl |-> b.tbl, reqs |-> b.reqs, tblIn |-> tbl])])

player_name_to_id(memo, tbl, name, league_id, season, resp) ==
    let([b \in {lookup_body(tbl, name, req_players(name, league_id, season), resp)} |->
        lru_cache(memo, <<name, league_id, season>>,
                  [ret |-> b.ret, tbl |-> b.tbl, reqs |-> b.reqs, tblIn |-> tbl])])

(***************************************************************************)
(* Standings cache.  The rows are stored as JSON text: json.dumps writes   *)
(* an integer as its decimal text and a string between quotes, json.loads  *)
(* reads them back.  The season column has TEXT affinity, so the integer   *)
(* season the dispatcher passes is stored, and compared, as its text.      *)
(***************************************************************************)
quote(s) == <<"\"">> \o s \o <<"\"">>
unquote(t) == SubSeq(t, 2, Len(t) - 1)

dump_stats(s) == [played |-> int_text(s.played), win |-> int_text(s.win),
                  draw |-> int_text(s.draw), lose |-> int_text(s.lose)]
load_stats(t) == [played |-> parse_int(t.played), win |-> parse_int(t.win),
                  draw |-> parse_int(t.draw), lose |-> parse_int(t.lose)]

dump_row(r) == [rank |-> int_text(r.rank), team |-> quote(r.team),
                stats |-> dump_stats(r.stats), gd |-> int_text(r.gd),
                pts |-> int_text(r.pts)]
load_row(t) == [rank |-> parse_int(t.rank), team |-> unquote(t.team),
                stats |-> load_stats(t.stats), gd |-> parse_int(t.gd),
                pts |-> parse_int(t.pts)]

json_dumps(rows) == [i \in DOMAIN rows |-> dump_row(rows[i])]
json_loads(text) == [i \in DOMAIN text |-> load_row(text[i])]

\* The primary key (league INTEGER, season TEXT) under the columns' affinity.
cache_key(league_id, season) == <<league_id, int_text(season)>>

InsertIfAbsent(cache, league_id, season, rows) ==
    IF cache_key(league_id, season) \in DOMAIN cache THEN cache
    ELSE (cache_key(league_id, season) :> json_dumps(rows)) @@ cache

\* INSERT OR REPLACE INTO standings_cache VALUES (league, season, json)
cache_standings(cache, league_id, season, rows) ==
    (cache_key(league_id, season) :> json_dumps(rows)) @@ cache

NeverCached(cache, league_id, season) == Nothing

\* SELECT json ... WHERE league=? AND season=?; None when there is no row.
load_standings_cache(cache, league_id, season) ==
    IF cache_key(league_id, season) \in DOMAIN cache
    THEN Some(json_loads(cache[cache_key(league_id, season)]))
    ELSE Nothing

(***************************************************************************)
(* Normalizer (utils.py)                                                   *)
(***************************************************************************)
is_digit(c) == \E i \in DOMAIN DigitChars : DigitChars[i] = c
all_digits(t) == t # <<>> /\ \A i \in DOMAIN t : is_digit(t[i])

RECURSIVE strip_left(_)
strip_left(t) == IF t # <<>> /\ t[1] = " " THEN strip_left(Tail(t)) ELSE t
RECURSIVE strip_right(_)
strip_right(t) == IF t # <<>> /\ t[Len(t)] = " "
                  THEN strip_right(SubSeq(t, 1, Len(t) - 1)) ELSE t
\* str.strip()
strip(t) == strip_right(strip_left(t))

\* str.startswith
startswith(t, prefix) ==
    Len(prefix) <= Len(t) /\ SubSeq(t, 1, Len(prefix)) = prefix

\* zero-padded decimal text of width w (strftime's %Y, %m, %d)
RECURSIVE pad(_, _)
pad(t, w) == IF Len(t) >= w THEN t ELSE pad(<<"0">> \o t, w)

\* the length of the longest run of digits t starts with / ends with
RECURSIVE lead_digits(_)
lead_digits(t) == IF t # <<>> /\ is_digit(t[1]) THEN 1 + lead_digits(Tail(t)) ELSE 0
RECURSIVE trail_digits(_)
trail_digits(t) == IF t # <<>> /\ is_digit(t[Len(t)])
                   THEN 1 + trail_digits(SubSeq(t, 1, Len(t) - 1)) ELSE 0

\* re.match(r"^\d{n}\D+\d{lo,hi}$", t): n digits, then one or more non-digits,
\* then lo to hi digits up to the end
season_match(t, n, lo, hi) ==
    /\ lead_digits(t) = n
    /\ trail_digits(t) >= lo /\ trail_digits(t) <= hi
    /\ n + trail_digits(t) < Len(t)
    /\ \A i \in (n + 1)..(Len(t) - trail_digits(t)) : ~is_digit(t[i])

\* A season as the parser supplies it: absent, a text, or an integer.
SeasonNone == [kind |-> "none", text |-> <<>>, num |-> 0]
SeasonStr(t) == [kind |-> "str", text |-> t, num |-> 0]
SeasonInt(n) == [kind |-> "int", text |-> <<>>, num |-> n]

NormalizePivotAt51(season_raw) ==
    IF season_raw.kind = "none" THEN NoName
    ELSE IF season_raw.kind = "int" THEN int_text(season_raw.num)
    ELSE let([t \in {strip(season_raw.text)} |->
            IF season_match(t, 4, 2, 4) THEN SubSeq(t, 1, 4)
            ELSE IF season_match(t, 4, 2, 2) THEN SubSeq(t, 1, 4)
            ELSE IF season_match(t, 2, 2, 2)
                 THEN let([yy \in {digits_value(SubSeq(t, 1, 2))} |->
                          int_text((IF yy >= 51 THEN 1900 ELSE 2000) + yy)])
            ELSE IF Len(t) = 4 /\ all_digits(t) THEN t
            ELSE NoName])

\* normalize_season: the starting year as text, or NoName for None
normalize_season(season_raw) ==
    IF season_raw.kind = "none" THEN NoName
    ELSE IF season_raw.kind = "int" THEN int_text(season_raw.num)
    ELSE let([t \in {strip(season_raw.text)} |->
            IF season_match(t, 4, 2, 4) THEN SubSeq(t, 1, 4)
            ELSE IF season_match(t, 4, 2, 2) THEN SubSeq(t, 1, 4)
            ELSE IF season_match(t, 2, 2, 2)
                 THEN let([yy \in {digits_value(SubSeq(t, 1, 2))} |->
                          int_text((IF yy >= 50 THEN 1900 ELSE 2000) + yy)])
            ELSE IF Len(t) = 4 /\ all_digits(t) THEN t
            ELSE NoName])

\* the fields of t between occurrences of the separator sep
RECURSIVE split(_, _)
split(t, sep) ==
    IF \E i \in DOMAIN t : t[i] = sep
    THEN let([i \in {CHOOSE k \in DOMAIN t :
                         t[k] = sep /\ \A j \in 1..(k - 1) : t[j] # sep} |->
             <<SubSeq(t, 1, i - 1)>> \o split(SubSeq(t, i + 1, Len(t)), sep)])
    ELSE <<t>>

is_leap(y) == (y % 4 = 0 /\ y % 100 # 0) \/ y % 400 = 0
days_in_month(y, m) ==
    IF m = 2 THEN (IF is_leap(y) THEN 29 ELSE 28)
    ELSE IF m \in {4, 6, 9, 11} THEN 30 ELSE 31

MonthFirstFormats ==
    << <<"Ymd", "-">>, <<"Ymd", "/">>, <<"mdY", "-">>, <<"mdY", "/">>,
       <<"dmY", "-">>, <<"dmY", "/">>, <<"mdy", "-">>, <<"mdy", "/">>,
       <<"dmy", "-">>, <<"dmy", "/">>, <<"ymd", "-">>, <<"ymd", "/">> >>

\* the formats standardize_date tries, in its order: the order of the fields
\* and the separator
DateFormats ==
    << <<"Ymd", "-">>, <<"Ymd", "/">>, <<"dmY", "-">>, <<"dmY", "/">>,
       <<"mdY", "-">>, <<"mdY", "/">>, <<"dmy", "-">>, <<"dmy", "/">>,
       <<"mdy", "-">>, <<"mdy", "/">>, <<"ymd", "-">>, <<"ymd", "/">> >>

NoDate == [ok |-> FALSE, y |-> 0, m |-> 0, d |-> 0]

\* datetime.strptime(t, fmt): %Y is four digits, %y two digits (00-68 are
\* 2000-2068, 69-99 are 1969-1999), %m and %d one or two digits in range (%d
\* also a blank and a digit); the day must exist in the month.  ok is FALSE
\* where strptime raises ValueError.
strptime(t, fmt) ==
    let([f \in {split(t, fmt[2])},
         yi \in {IF fmt[1] \in {"Ymd", "ymd"} THEN 1 ELSE 3},
         mi \in {IF fmt[1] \in {"mdY", "mdy"} THEN 1 ELSE 2},
         di \in {IF fmt[1] \in {"Ymd", "ymd"} THEN 3
                 ELSE IF fmt[1] \in {"dmY", "dmy"} THEN 1 ELSE 2},
         long \in {fmt[1] \in {"Ymd", "dmY", "mdY"}} |->
        IF Len(f) # 3 THEN NoDate
        ELSE IF ~(/\ all_digits(f[yi]) /\ all_digits(f[mi])
                  /\ \/ all_digits(f[di])
                     \/ (Len(f[di]) = 2 /\ f[di][1] = " " /\ is_digit(f[di][2])
                           /\ f[di][2] # "0"))
             THEN NoDate
        ELSE IF Len(f[yi]) # (IF long THEN 4 ELSE 2) THEN NoDate
        ELSE IF Len(f[mi]) > 2 \/ Len(f[di]) > 2 THEN NoDate
        ELSE let([yv \in {digits_value(f[yi])},
                  m \in {digits_value(f[mi])},
                  d \in {digits_value(strip_left(f[di]))} |->
                 let([y \in {IF long THEN yv
                             ELSE IF yv <= 68 THEN 2000 + yv ELSE 1900 + yv} |->
                     IF y >= 1 /\ m >= 1 /\ m <= 12 /\ d >= 1
                           /\ d <= days_in_month(y, m)
                     THEN [ok |-> TRUE, y |-> y, m |-> m, d |-> d]
                     ELSE NoDate])])])

\* date_obj.strftime('%Y-%m-%d').  %m and %d are two digits; %Y is the year
\* as the C library prints it, which on glibc is not zero-filled: a year
\* before 1000 comes out with fewer than four digits.
strftime(dt) == digits(dt.y) \o <<"-">> \o pad(digits(dt.m), 2)
                    \o <<"-">> \o pad(digits(dt.d), 2)

StandardizeAnything(date_str) == date_str

\* standardize_date: the first format that parses wins; NoName for None
standardize_date(date_str) ==
    IF date_str = NoName THEN NoName
    ELSE let([t \in {strip(date_str)} |->
            let([hits \in {{i \in DOMAIN DateFormats : strptime(t, DateFormats[i]).ok}} |->
                IF hits = {} THEN NoName
                ELSE strftime(strptime(t,
                         DateFormats[CHOOSE i \in hits : \A j \in hits : i <= j]))])])

\* deduce_season_from_date: January to June belong to the season that started
\* the year before
deduce_season_from_date(date_str) ==
    let([standardized_date \in {standardize_date(date_str)} |->
        IF standardized_date = NoName THEN NoName
        ELSE let([date \in {strptime(standardized_date, <<"Ymd", "-">>)} |->
                 IF ~date.ok THEN NoName
                 ELSE int_text(IF date.m <= 6 THEN date.y - 1 ELSE date.y)])])

(***************************************************************************)
(* Supported leagues (utils.py) and the dispatcher's constants (main.py)   *)
(***************************************************************************)
PremierLeague == <<"P", "r", "e", "m", "i", "e", "r", " ", "L", "e", "a",
    "g", "u", "e">>
ChampionsLeague == <<"U", "E", "F", "A", " ", "C", "h", "a", "m", "p", "i",
    "o", "n", "s", " ", "L", "e", "a", "g", "u", "e">>
Final == <<"F", "i", "n", "a", "l">>
Dash == <<"-">>
NoneText == <<"N", "o", "n", "e">>

SUPPORTED_LEAGUES ==
    <<PremierLeague,
      <<"L","a"," ","L","i","g","a">>,
      <<"B","u","n","d","e","s","l","i","g","a">>,
      <<"S","e","r","i","e"," ","A">>,
      <<"L","i","g","u","e"," ","1">>,
      <<"E","r","e","d","i","v","i","s","i","e">>,
      <<"P","r","i","m","e","i","r","a"," ","L","i","g","a">>,
      ChampionsLeague,
      <<"U","E","F","A"," ","E","u","r","o","p","a"," ","L","e","a","g","u","e">>,
      <<"U","E","F","A"," ","C","o","n","f","e","r","e","n","c","e"," ","L","e","a","g","u","e">> >>
SUPPORTED_LEAGUES_IDS == {39, 140, 78, 135, 61, 88, 94, 2, 3, 848}
UEFA_IDS == {2, 3, 848}

Range(s) == {s[i] : i \in DOMAIN s}

\* {l.lower(): l for l in SUPPORTED_LEAGUES}
SUPPORTED_LEAGUES_LC ==
    [k \in {lower(l) : l \in Range(SUPPORTED_LEAGUES)} |->
        CHOOSE l \in Range(SUPPORTED_LEAGUES) : lower(l) = k]

\* sub in t
contains(t, sub) ==
    \E i \in 1..(Len(t) - Len(sub) + 1) : SubSeq(t, i, i + Len(sub) - 1) = sub

\* str(x) of an id that may be None, as an f-string prints it
str_id(i) == IF i = None THEN NoneText ELSE int_text(i)

\* len(player.split()) > 1 and player.split()[1], for a name whose words
\* are separated by single spaces
words(t) == SelectSeq(split(t, " "), LAMBDA w : w # <<>>)

(***************************************************************************)
(* Remote fetcher (api_client.py).  The state a call runs in is the record *)
(* c: the module-level PENDING, the lru_cache memos, the SQLite tables and *)
(* reqs, the remote requests issued so far in the turn.  Every operator    *)
(* takes c and gives back the state it leaves with what it returns.        *)
(***************************************************************************)
opt(k, v, present) == IF present THEN (k :> v) ELSE EmptyMap

\* what a call gives back: the state it leaves, the value it returns and
\* the exception it raises ("" for none)
ok(c, ret) == [c |-> c, ret |-> ret, exc |-> ""]
raise(c, exc) == [c |-> c, ret |-> None, exc |-> exc]

issue(c, request) == [c EXCEPT !.reqs = Append(@, request)]

\* _call(endpoint, params): the request as it goes out
api_request(endpoint, params) == [ep |-> endpoint, params |-> params, via |-> "_call"]

\* _call.  fail says how the remote fails in the turn: "unreachable" (no
\* connection or a timeout, for every request) or "status" (the data
\* endpoints answer with an HTTP error status).  raise_for_status raises with
\* r bound and the handler of RequestException raises ApiError; when
\* requests.get itself raises, the handler reads r, which was never bound.
api_call(c, request, resp, fail) ==
    IF fail = "unreachable" THEN raise(issue(c, request), "UnboundLocalError")
    ELSE IF fail = "status" THEN raise(issue(c, request), "ApiError")
    ELSE ok(issue(c, request), resp)

\* an lru_cache-decorated function of api_client: key is the call's
\* arguments as written at the call site, resp the remote's answer.  A call
\* that raises stores nothing.
memoized(c, key, request, resp, fail) ==
    IF key \notin DOMAIN c.api_memo /\ fail # ""
    THEN api_call(c, request, resp, fail)
    ELSE let([m \in {lru_cache(c.api_memo, key,
                    [ret |-> resp, tbl |-> {}, tblIn |-> {}, reqs |-> <<request>>])} |->
            ok([c EXCEPT !.api_memo = m.memo, !.reqs = @ \o m.reqs], m.ret)])

LeaguePhaseFrom2025(season) == season >= 2025

is_league_phase_format(season) == season >= 2024

get_standings(c, league_id, season, resp, fail) ==
    memoized(c, [fn |-> "get_standings", args |-> <<league_id, season>>],
             api_request("standings", [league |-> league_id, season |-> season]),
             resp, fail)

\* the arguments of get_fixtures with the defaults of its signature
NoArgs == [league_id |-> None, season |-> None, date |-> NoName, h2h |-> NoName,
           fixture_id |-> None, stage |-> NoName, last |-> None, next |-> None,
           team_id |-> None]

fixtures_request(a) ==
    IF a.fixture_id # None THEN api_request("fixtures", [id |-> a.fixture_id])
    ELSE let([params \in {opt("league", a.league_id, a.league_id # None)
                          @@ opt("date", a.date, a.date # NoName)
                          @@ opt("stage", a.stage, a.stage # NoName)
                          @@ opt("last", a.last, a.last # None)
                          @@ opt("next", a.next, a.next # None)
                          @@ opt("season", a.season, a.season # None)
                          @@ opt("team", a.team_id, a.team_id # None)} |->
            IF a.h2h # NoName /\ ~contains(a.h2h, NoneText)
            THEN api_request("fixtures/headtohead", params @@ opt("h2h", a.h2h, TRUE))
            ELSE api_request("fixtures", params)])

\* get_fixtures(**kw): passed names the keyword arguments the call site
\* writes, in its order (lru_cache keys on them), a their values
get_fixtures(c, passed, a, resp, fail) ==
    memoized(c, [fn |-> "get_fixtures", passed |-> passed, args |-> a],
             fixtures_request(a), resp, fail)

get_match_events(c, fixture_id, resp, fail) ==
    memoized(c, [fn |-> "get_match_events", args |-> <<fixture_id>>],
             api_request("fixtures/events", [fixture |-> fixture_id]), resp, fail)

get_fixture_statistics(c, fixture_id, resp, fail) ==
    memoized(c, [fn |-> "get_fixture_statistics", args |-> <<fixture_id>>],
             api_request("fixtures/statistics", [fixture |-> fixture_id]), resp, fail)

h2h_text(a_id, b_id) == str_id(a_id) \o Dash \o str_id(b_id)

\* infer_league_from_h2h left out: no request, no league
InferNothing(c, team_a_id, team_b_id, resp, fail) == ok(c, None)

infer_league_from_h2h(c, team_a_id, team_b_id, resp, fail) ==
    let([r \in {api_call(c, api_request("fixtures",
                    [h2h |-> h2h_text(team_a_id, team_b_id), last |-> 1]), resp, fail)} |->
        IF r.exc # "" THEN r
        ELSE ok(r.c, IF resp # <<>> THEN resp[1].league.id ELSE None)])

get_player_stats(c, player_id, season, league_id, resp, fail) ==
    api_call(c, api_request("players",
                 [id |-> player_id, season |-> season]
                 @@ opt("league", league_id, league_id # None)), resp, fail)

\* fetch_uefa_standings: data["response"][0] of an empty response raises
\* IndexError; the table of the league phase, or the tables by group
fetch_uefa_standings(c, league_id, season, resp, fail) ==
    let([r \in {get_standings(c, league_id, season, resp, fail)} |->
        IF r.exc # "" THEN r
        ELSE IF r.ret = <<>> THEN raise(r.c, "IndexError")
        ELSE let([tables \in {r.ret[1].league.standings} |->
               IF is_league_phase_format(season)
               THEN IF tables = <<>> THEN raise(r.c, "IndexError")
                    ELSE ok(r.c, [phase |-> "league", table |-> tables[1]])
               ELSE IF \E i \in DOMAIN tables : tables[i] = <<>>
                    THEN raise(r.c, "IndexError")
                    ELSE ok(r.c, [phase |-> "groups",
                                  groups |-> [g \in {tables[i][1].group : i \in DOMAIN tables} |->
                                      tables[CHOOSE i \in DOMAIN tables :
                                                 /\ tables[i][1].group = g
                                                 /\ \A j \in DOMAIN tables :
                                                        tables[j][1].group = g => j <= i]]])])])

\* the knock-out stages taken to be the names holding 'Final' alone
KnockoutsByFinal(stage_names) ==
    SelectSeq(stage_names, LAMBDA st : contains(st, Final))

\* the knock-out stages: the names holding 'Final' or a dash
knockouts(stage_names) ==
    SelectSeq(stage_names, LAMBDA st : contains(st, Final) \/ contains(st, Dash))

\* the loop of fetch_uefa_bracket over the knock-out stages left to fetch;
\* fx gives the remote's fixtures by stage (none for a stage it does not list)
RECURSIVE fetch_stages(_, _, _, _, _, _, _)
fetch_stages(c, league_id, season, stages, bracket, fx, fail) ==
    IF stages = <<>> THEN ok(c, bracket)
    ELSE let([r \in {get_fixtures(c, <<"league_id", "season", "stage">>,
                               [NoArgs EXCEPT !.league_id = league_id,
                                              !.season = season,
                                              !.stage = Head(stages)],
                               IF Head(stages) \in DOMAIN fx THEN fx[Head(stages)]
                               ELSE <<>>, fail)} |->
            IF r.exc # "" THEN r
            ELSE fetch_stages(r.c, league_id, season, Tail(stages),
                              (Head(stages) :> r.ret) @@ bracket, fx, fail)])

fetch_uefa_bracket(c, league_id, season, stage_names, fx, fail) ==
    let([r \in {api_call(c, api_request("fixtures/stages",
                             [league |-> league_id, season |-> season]),
                         stage_names, fail)} |->
        IF r.exc # "" THEN r
        ELSE fetch_stages(r.c, league_id, season, knockouts(stage_names),
                          EmptyMap, fx, fail)])

SemiFinals == <<"S", "e", "m", "i", "-", "f", "i", "n", "a", "l", "s">>

\* final_ranks_from_bracket never reaches its return: the dict it builds
\* reads quarter_losers, a name the function never binds.  What it raises
\* is decided by the first lookup that fails on the way there.
final_ranks_from_bracket(c, bracket) ==
    IF Final \notin DOMAIN bracket THEN raise(c, "KeyError")
    ELSE IF bracket[Final] = <<>> THEN raise(c, "IndexError")
    ELSE IF SemiFinals \notin DOMAIN bracket THEN raise(c, "KeyError")
    ELSE let([semi \in {bracket[SemiFinals]} |->
            IF Cardinality({<<i, side>> \in (DOMAIN semi) \X {"home", "away"} :
                                ~semi[i].teams[side].winner}) < 2
            THEN raise(c, "IndexError")
            ELSE raise(c, "NameError")])

\* convert: API-Football row -> internal row
convert(api_row) ==
    [rank |-> api_row.rank, team |-> api_row.team.name, stats |-> api_row.all,
     gd |-> api_row.goalsDiff, pts |-> api_row.points]

PullWithoutCaching(c, league_id, season, resp, fail) ==
    let([api \in {get_standings(c, league_id, season, resp, fail)} |->
        IF api.exc # "" THEN api
        ELSE IF api.ret = <<>> THEN raise(api.c, "IndexError")
        ELSE IF api.ret[1].league.standings = <<>> THEN raise(api.c, "IndexError")
        ELSE ok(api.c, [i \in DOMAIN api.ret[1].league.standings[1] |->
                           convert(api.ret[1].league.standings[1][i])])])

\* pull_and_cache_domestic_table: the single table of the response,
\* converted and written to the standings cache
pull_and_cache_domestic_table(c, league_id, season, resp, fail) ==
    let([api \in {get_standings(c, league_id, season, resp, fail)} |->
        IF api.exc # "" THEN api
        ELSE IF api.ret = <<>> THEN raise(api.c, "IndexError")
        ELSE IF api.ret[1].league.standings = <<>> THEN raise(api.c, "IndexError")
        ELSE let([raw_rows \in {api.ret[1].league.standings[1]} |->
               let([rows \in {[i \in DOMAIN raw_rows |-> convert(raw_rows[i])]} |->
                   ok([api.c EXCEPT !.standings_cache =
                           cache_standings(@, league_id, season, rows)], rows)])])])

(***************************************************************************)
(* Dispatcher (main.py)                                                    *)
(***************************************************************************)
req_leagues(name) == [ep |-> "leagues", search |-> name]

\* resolver.league_name_to_id under its lru_cache: the id of the first
\* league the remote search lists, None for an empty list.  requests.get is
\* called bare, so an unreachable remote raises requests' ConnectionError.
league_name_to_id(c, name, resp, fail) ==
    IF name \notin DOMAIN c.league_memo /\ fail = "unreachable"
    THEN raise(issue(c, req_leagues(name)), "ConnectionError")
    ELSE let([m \in {lru_cache(c.league_memo, name,
                    [ret |-> IF resp # <<>> THEN resp[1].league.id ELSE None,
                     tbl |-> {}, tblIn |-> {}, reqs |-> <<req_leagues(name)>>])} |->
            ok([c EXCEPT !.league_memo = m.memo, !.reqs = @ \o m.reqs], m.ret)])

\* team_name_to_id(name) as the handlers call it, with the name alone
team_id_of(c, name, resp, fail) ==
    IF /\ <<name, None, None>> \notin DOMAIN c.team_memo
       /\ select_ids(c.team, name) = {}
       /\ fail = "unreachable"
    THEN raise(issue(c, req_teams(name, None, None)), "ConnectionError")
    ELSE let([r \in {team_name_to_id(c.team_memo, c.team, name, None, None, resp)} |->
            ok([c EXCEPT !.team_memo = r.memo, !.team = r.tbl,
                         !.reqs = @ \o r.reqs], r.ret)])

\* player_name_to_id(player, lg_id, season) as _handle_player_stats calls it
player_id_of(c, name, league_id, season, resp, fail) ==
    IF /\ <<name, league_id, season>> \notin DOMAIN c.player_memo
       /\ select_ids(c.player, name) = {}
       /\ fail = "unreachable"
    THEN raise(issue(c, req_players(name, league_id, season)), "ConnectionError")
    ELSE let([r \in {player_name_to_id(c.player_memo, c.player, name, league_id,
                                       season, resp)} |->
            ok([c EXCEPT !.player_memo = r.memo, !.player = r.tbl,
                         !.reqs = @ \o r.reqs], r.ret)])

\* what a handler returns: the state it leaves and the reply, a message
\* named by its kind with the values printed in it; a handler that raises
\* replies with the kind "raised" and the exception
reply(c, kind, args) == [c |-> c, msg |-> [kind |-> kind, args |-> args]]
raised(r) == reply(r.c, "raised", <<r.exc>>)

AskWithoutStoring(c, parsed) == reply(c, "ask_for_league", SUPPORTED_LEAGUES)

\* ask_for_league keeping of the query only its intent and league
AskForgetful(c, parsed) ==
    reply([c EXCEPT !.PENDING =
               Some([need |-> "league", intent |-> parsed.intent,
                     parsed |-> [parsed EXCEPT !.team_a = NoName, !.team_b = NoName,
                                               !.player_name = NoName,
                                               !.season = SeasonNone, !.date = NoName,
                                               !.which = NoName, !.count = None,
                                               !.stats_requested = <<>>,
                                               !.player_stats_requested = <<>>]])],
          "ask_for_league", SUPPORTED_LEAGUES)

\* ask_for_league: stores the query and asks which league was meant
ask_for_league(c, parsed) ==
    reply([c EXCEPT !.PENDING = Some([need |-> "league", intent |-> parsed.intent,
                                      parsed |-> parsed])],
          "ask_for_league", SUPPORTED_LEAGUES)

league_not_supported_msg(name) ==
    [kind |-> "league_not_supported", args |-> <<name>>]

\* _handle_bracket
handle_bracket(c, parsed, lg_id, season, e) ==
    IF parsed.league_name = NoName THEN ask_for_league(c, parsed)
    ELSE IF lg_id \notin SUPPORTED_LEAGUES_IDS
         THEN [c |-> c, msg |-> league_not_supported_msg(parsed.league_name)]
    ELSE IF lg_id \notin UEFA_IDS THEN reply(c, "bracket_only_uefa", <<>>)
    ELSE let([bracket \in {fetch_uefa_bracket(c, lg_id, season, e.stages,
                                              e.bracket, e.fail)} |->
            IF bracket.exc # "" THEN raised(bracket)
            ELSE reply(bracket.c, "fmt_bracket", <<bracket.ret>>)])

\* next(r for r in rows_flat if r["team"].lower() == team_filter.lower())
rank_in(rows_flat, team_filter) ==
    let([hits \in {{i \in DOMAIN rows_flat :
                       lower(rows_flat[i].team) = lower(team_filter)}} |->
        IF hits = {} THEN None
        ELSE rows_flat[CHOOSE i \in hits : \A j \in hits : i <= j].rank])

\* the part of _handle_standings after the rows are in hand: the rank of
\* one team, or the whole table
standings_reply(c, parsed, lg_id, season, rows, e) ==
    let([team_filter \in {parsed.team_a},
         grouped \in {(lg_id \in UEFA_IDS) /\ ~is_league_phase_format(season)} |->
        IF team_filter # NoName
        THEN IF grouped
             THEN let([bracket \in {fetch_uefa_bracket(c, lg_id, season, e.stages,
                                                       e.bracket, e.fail)} |->
                      IF bracket.exc # "" THEN raised(bracket)
                      ELSE raised(final_ranks_from_bracket(bracket.c, bracket.ret))])
             ELSE let([rank \in {rank_in(rows, team_filter)} |->
                      IF rank = None
                      THEN reply(c, "team_not_found",
                                 <<team_filter, parsed.league_name, season>>)
                      ELSE reply(c, "team_finished",
                                 <<team_filter, rank, parsed.league_name, season>>)])
        ELSE IF grouped
             THEN reply(c, "fmt_group_tables", <<parsed.league_name, season, rows>>)
             ELSE reply(c, "fmt_standings", <<rows, parsed.league_name, season>>)])

\* _handle_standings
handle_standings(c, parsed, lg_id, season, e) ==
    IF lg_id = None THEN ask_for_league(c, parsed)
    ELSE IF lg_id \notin SUPPORTED_LEAGUES_IDS
         THEN [c |-> c, msg |-> league_not_supported_msg(parsed.league_name)]
    ELSE IF lg_id \in UEFA_IDS
         THEN let([res \in {fetch_uefa_standings(c, lg_id, season, e.standings,
                                                 e.fail)} |->
                  IF res.exc # "" THEN raised(res)
                  ELSE IF res.ret.phase = "league"
                       THEN standings_reply(res.c, parsed, lg_id, season,
                                [i \in DOMAIN res.ret.table |-> convert(res.ret.table[i])], e)
                       ELSE standings_reply(res.c, parsed, lg_id, season,
                                [g \in DOMAIN res.ret.groups |->
                                    [i \in DOMAIN res.ret.groups[g] |->
                                        convert(res.ret.groups[g][i])]], e)])
    ELSE let([cached \in {load_standings_cache(c.standings_cache, lg_id, season)} |->
            IF cached # Nothing
            THEN standings_reply(c, parsed, lg_id, season, cached[1], e)
            ELSE let([pulled \in {pull_and_cache_domestic_table(c, lg_id, season,
                                                                e.standings, e.fail)} |->
                     IF pulled.exc # "" THEN raised(pulled)
                     ELSE standings_reply(pulled.c, parsed, lg_id, season,
                                          pulled.ret, e)])])

\* the texts main.py compares modes, stat tokens and events against
ModeNext == <<"n", "e", "x", "t">>
ModeLast == <<"l", "a", "s", "t">>
ModeSpecific == <<"s", "p", "e", "c", "i", "f", "i", "c">>
ModeSeason == <<"s", "e", "a", "s", "o", "n">>
ModeTeamNext == <<"t", "e", "a", "m", "_", "n", "e", "x", "t">>
ModeTeamLast == <<"t", "e", "a", "m", "_", "l", "a", "s", "t">>

ALLOWED == {ModeNext, ModeLast, ModeSpecific, ModeSeason, ModeTeamNext, ModeTeamLast}

\* the canonical mode of _handle_fixture
fixture_mode(which_raw, team_b) ==
    let([w0 \in {IF which_raw # NoName THEN which_raw ELSE ModeSpecific} |->
    let([w1 \in {IF w0 \in {ModeLast, ModeNext} /\ team_b = NoName
                 THEN <<"t","e","a","m","_">> \o w0 ELSE w0} |->
        IF w1 \in ALLOWED THEN w1
        ELSE IF contains(w1, ModeLast) THEN ModeTeamLast
        ELSE IF team_b = NoName THEN ModeTeamNext
        ELSE IF contains(w1, ModeLast) THEN ModeLast
        ELSE ModeNext])])

\* [f for f in response if f["fixture"]["date"].startswith(date)] if date
on_date(response, date) ==
    IF date = NoName THEN response
    ELSE SelectSeq(response, LAMBDA f : startswith(f.fixture.date, date))

\* _handle_fixture; date is the date as handle_query read it from the query
handle_fixture(c, parsed, lg_id0, season, date, e) ==
    let([count \in {IF parsed.count # None THEN parsed.count ELSE 1},
         team_a \in {parsed.team_a},
         team_b \in {parsed.team_b},
         which \in {fixture_mode(parsed.which, parsed.team_b)} |->
    let([a \in {IF team_a # NoName THEN team_id_of(c, team_a, e.team_a, e.fail)
                ELSE ok(c, None)} |->
    let([b \in {IF a.exc # "" THEN a
                ELSE IF team_b # NoName THEN team_id_of(a.c, team_b, e.team_b, e.fail)
                ELSE ok(a.c, None)} |->
    let([a_id \in {a.ret}, b_id \in {b.ret} |->
        IF b.exc # "" THEN raised(b)
        ELSE IF which \in {ModeTeamNext, ModeTeamLast}
        THEN IF a_id = None THEN reply(b.c, "need_team_name", <<>>)
             ELSE IF parsed.league_name # NoName /\ lg_id0 = None
                  THEN ask_for_league(b.c, parsed)
             ELSE let([lst \in {get_fixtures(b.c,
                                 <<"team_id", "league_id", "last", "next">>,
                                 [NoArgs EXCEPT !.team_id = a_id, !.league_id = lg_id0,
                                     !.last = IF which = ModeTeamLast THEN count ELSE None,
                                     !.next = IF which = ModeTeamNext THEN count ELSE None],
                                 e.fixtures, e.fail)} |->
                      IF lst.exc # "" THEN raised(lst)
                      ELSE reply(lst.c, "fmt_fixture_list",
                                 <<lst.ret, which, count,
                                   IF lg_id0 # None THEN parsed.league_name ELSE NoName,
                                   team_a>>)])
        ELSE let([inf \in {IF lg_id0 = None /\ a_id # None /\ b_id # None
                           THEN infer_league_from_h2h(b.c, a_id, b_id, e.infer, e.fail)
                           ELSE ok(b.c, lg_id0)},
                  h2h \in {h2h_text(a_id, b_id)} |->
             let([lg_id \in {inf.ret} |->
                IF inf.exc # "" THEN raised(inf)
                ELSE IF which \in {ModeSeason, ModeSpecific} /\ lg_id = None
                     THEN ask_for_league(inf.c, parsed)
                ELSE IF which = ModeNext
                     THEN let([fixtures \in {get_fixtures(inf.c,
                                  <<"h2h", "league_id", "next">>,
                                  [NoArgs EXCEPT !.h2h = h2h, !.league_id = lg_id,
                                                 !.next = 1],
                                  e.fixtures, e.fail)} |->
                              IF fixtures.exc # "" THEN raised(fixtures)
                              ELSE reply(fixtures.c, "fmt_fixture_list",
                                         <<fixtures.ret, which, 1, team_a, team_b>>)])
                ELSE IF which = ModeLast
                     THEN let([fixtures \in {get_fixtures(inf.c,
                                  <<"h2h", "league_id", "last">>,
                                  [NoArgs EXCEPT !.h2h = h2h, !.league_id = lg_id,
                                                 !.last = count],
                                  e.fixtures, e.fail)} |->
                              IF fixtures.exc # "" THEN raised(fixtures)
                              ELSE reply(fixtures.c, "fmt_fixture_list",
                                         <<fixtures.ret, which, count, team_a, team_b>>)])
                ELSE IF which = ModeSeason
                     THEN let([fixtures \in {get_fixtures(inf.c,
                                  <<"h2h", "league_id", "season", "last">>,
                                  [NoArgs EXCEPT !.h2h = h2h, !.league_id = lg_id,
                                                 !.season = season, !.last = 20],
                                  e.fixtures, e.fail)} |->
                              IF fixtures.exc # "" THEN raised(fixtures)
                              ELSE reply(fixtures.c, "fmt_fixture_list",
                                         <<fixtures.ret, which, season, team_a, team_b>>)])
                ELSE let([fixtures \in {get_fixtures(inf.c,
                                  <<"h2h", "league_id", "season">>,
                                  [NoArgs EXCEPT !.h2h = h2h, !.league_id = lg_id,
                                                 !.season = season],
                                  e.fixtures, e.fail)} |->
                         IF fixtures.exc # "" THEN raised(fixtures)
                         ELSE let([lst \in {on_date(fixtures.ret, date)} |->
                                  IF lst = <<>>
                                  THEN reply(fixtures.c, "no_fixture_found", <<>>)
                                  ELSE reply(fixtures.c, "fmt_fixture_row",
                                             <<lst[1]>>)])])])])])])])])

\* EVENT_MAP: by stat token, the type an event must have and the text its
\* detail must start with (none for the tokens that test the type alone)
EVENT_MAP ==
    (<<"y","e","l","l","o","w","_","c","a","r","d","s">> :>
        [type |-> <<"C","a","r","d">>, detail |-> <<"Y","e","l","l","o","w">>])
    @@ (<<"r","e","d","_","c","a","r","d","s">> :>
        [type |-> <<"C","a","r","d">>, detail |-> <<"R","e","d">>])
    @@ (<<"s","u","b","s","t","i","t","u","t","i","o","n","s">> :>
        [type |-> <<"s","u","b","s","t">>, detail |-> <<>>])
    @@ (<<"g","o","a","l","s">> :> [type |-> <<"G","o","a","l">>, detail |-> <<>>])

\* the keys of NUMERIC_MAP
NUMERIC_MAP ==
    {<<"s","h","o","t","s","_","o","n","_","g","o","a","l">>,
     <<"s","h","o","t","s","_","o","f","f","_","g","o","a","l">>,
     <<"s","h","o","t","s","_","i","n","s","i","d","e","b","o","x">>,
     <<"s","h","o","t","s","_","o","u","t","s","i","d","e","b","o","x">>,
     <<"t","o","t","a","l","_","s","h","o","t","s">>,
     <<"b","l","o","c","k","e","d","_","s","h","o","t","s">>,
     <<"f","o","u","l","s">>,
     <<"c","o","r","n","e","r","_","k","i","c","k","s">>,
     <<"o","f","f","s","i","d","e","s">>,
     <<"b","a","l","l","_","p","o","s","s","e","s","s","i","o","n">>,
     <<"g","o","a","l","k","e","e","p","e","r","_","s","a","v","e","s">>,
     <<"t","o","t","a","l","_","p","a","s","s","e","s">>,
     <<"p","a","s","s","e","s","_","a","c","c","u","r","a","t","e">>,
     <<"p","a","s","s","e","s","_","p","e","r","c","e","n","t">>}

\* EVENT_MAP read by the type of the event alone
EventMatchesType(w, ev) ==
    /\ w \in DOMAIN EVENT_MAP
    /\ ev.type = EVENT_MAP[w].type

\* EVENT_MAP.get(w, lambda x: False)(ev)
event_matches(w, ev) ==
    /\ w \in DOMAIN EVENT_MAP
    /\ ev.type = EVENT_MAP[w].type
    /\ startswith(ev.detail, EVENT_MAP[w].detail)

\* the tail of _handle_match_events once the fixture is known: the events
\* section and the statistics section, each present or not
events_reply(c, fixture_id, stats_requested, e) ==
    let([want \in {[i \in DOMAIN stats_requested |-> lower(stats_requested[i])]},
         raw_events \in {get_match_events(c, fixture_id, e.events, e.fail)} |->
        IF raw_events.exc # "" THEN raised(raw_events)
        ELSE let([events_part \in
                     {IF want = <<>>
                      THEN Some(raw_events.ret)
                      ELSE IF \E i \in DOMAIN want : want[i] \in DOMAIN EVENT_MAP
                      THEN Some(SelectSeq(raw_events.ret,
                               LAMBDA ev : \E i \in DOMAIN want :
                                               event_matches(want[i], ev)))
                      ELSE Nothing},
                  numeric_requested \in
                     {want = <<>> \/ \E i \in DOMAIN want : want[i] \in NUMERIC_MAP} |->
               IF numeric_requested
               THEN let([stats_raw \in {get_fixture_statistics(raw_events.c, fixture_id,
                                                               e.statistics, e.fail)} |->
                        IF stats_raw.exc # "" THEN raised(stats_raw)
                        ELSE reply(stats_raw.c, "match_events",
                                   <<events_part, Some(stats_raw.ret)>>)])
               ELSE reply(raw_events.c, "match_events", <<events_part, Nothing>>)])])

\* _handle_match_events.  get_fixtures hands out the dict its lru_cache
\* holds, and fx["response"] = [...] rewrites that dict: the memo entry keeps
\* the filtered list.
handle_match_events(c, parsed, lg_id0, season, date, e) ==
    let([a \in {team_id_of(c, parsed.team_a, e.team_a, e.fail)} |->
    let([b \in {IF a.exc # "" THEN a
                ELSE team_id_of(a.c, parsed.team_b, e.team_b, e.fail)} |->
    let([a_id \in {a.ret}, b_id \in {b.ret} |->
    let([inf \in {IF b.exc # "" THEN b
                  ELSE IF lg_id0 = None /\ a_id # None /\ b_id # None
                  THEN infer_league_from_h2h(b.c, a_id, b_id, e.infer, e.fail)
                  ELSE ok(b.c, lg_id0)},
         args \in {[NoArgs EXCEPT !.h2h = h2h_text(a_id, b_id), !.season = season]} |->
        IF inf.exc # "" THEN raised(inf)
        ELSE IF inf.ret = None /\ ~(a_id # None /\ b_id # None)
             THEN ask_for_league(inf.c, parsed)
        ELSE let([fx \in {get_fixtures(inf.c, <<"h2h", "season">>, args,
                                       e.fixtures, e.fail)},
                  key \in {[fn |-> "get_fixtures", passed |-> <<"h2h", "season">>,
                            args |-> args]} |->
             IF fx.exc # "" THEN raised(fx)
             ELSE let([response \in {on_date(fx.ret, date)} |->
                  let([kept \in {IF date # NoName /\ key \in DOMAIN fx.c.api_memo
                                 THEN [fx.c EXCEPT !.api_memo[key] = response]
                                 ELSE fx.c} |->
                      IF response = <<>> THEN reply(kept, "no_such_fixture", <<>>)
                      ELSE events_reply(kept, response[1].fixture.id,
                                        parsed.stats_requested, e)])])])])])])])

\* _handle_player_stats
handle_player_stats(c, parsed, lg_id, season, e) ==
    let([surname \in {IF /\ parsed.player_name # NoName
                         /\ Len(words(parsed.player_name)) > 1
                      THEN words(parsed.player_name)[2] ELSE parsed.player_name} |->
        IF \/ lg_id = None
           \/ parsed.league_name =
                  <<"U","n","k","n","o","w","n"," ","L","e","a","g","u","e">>
        THEN ask_for_league(c, parsed)
        ELSE IF lg_id \notin SUPPORTED_LEAGUES_IDS
             THEN [c |-> c, msg |-> league_not_supported_msg(parsed.league_name)]
        ELSE let([pl \in {player_id_of(c, surname, lg_id, season, e.player, e.fail)} |->
                 IF pl.exc # "" THEN raised(pl)
                 ELSE IF pl.ret = None
                      THEN reply(pl.c, "player_not_found", <<parsed.player_name>>)
                 ELSE let([raw \in {get_player_stats(pl.c, pl.ret, season, lg_id,
                                                     e.player_stats, e.fail)} |->
                          IF raw.exc # "" THEN raised(raw)
                          ELSE IF raw.ret = <<>> THEN reply(raw.c, "no_stats", <<>>)
                          ELSE reply(raw.c, "fmt_player_season",
                                     <<raw.ret[1], parsed.player_stats_requested,
                                       season>>)])])])

NotALeagueDropsPending(c, league_name) ==
    [c |-> [c EXCEPT !.PENDING = Nothing], parsed |-> Nothing, intent |-> "",
     parser |-> FALSE, msg |-> league_not_supported_msg(league_name)]

\* _parse_input's return for an answer that is not a supported league: the
\* message, with PENDING left as it is
not_a_league(c, league_name) ==
    [c |-> c, parsed |-> Nothing, intent |-> "", parser |-> FALSE,
     msg |-> league_not_supported_msg(league_name)]

RoadmapIsFootball(sport) == sport \in {"football", "basketball", "rugby", "f1"}

\* parsed["sport"] != Sport.FOOTBALL, negated
is_football(sport) == sport = "football"

\* _parse_input calling the parser before it looks at PENDING
ParseBeforePending(c, user_msg, q) ==
    let([pending \in {c.PENDING # Nothing /\ c.PENDING[1].need = "league"},
         league_name \in {strip(user_msg)} |->
        IF pending /\ lower(league_name) \notin DOMAIN SUPPORTED_LEAGUES_LC
        THEN [not_a_league(c, league_name) EXCEPT !.parser = TRUE]
        ELSE let([parsed \in {IF pending
                              THEN [c.PENDING[1].parsed EXCEPT
                                       !.league_name =
                                           SUPPORTED_LEAGUES_LC[lower(league_name)]]
                              ELSE q},
                  intent \in {IF pending THEN c.PENDING[1].intent ELSE q.intent},
                  c1 \in {IF pending THEN [c EXCEPT !.PENDING = Nothing] ELSE c} |->
             let([s \in {parsed.sport} |->
                IF ~is_football(s)
                THEN [c |-> c1, parsed |-> Nothing, intent |-> "", parser |-> TRUE,
                      msg |-> IF s \in {"basketball", "rugby", "f1"}
                              THEN [kind |-> "coming_soon", args |-> <<s>>]
                              ELSE IF s = "other"
                              THEN [kind |-> "sport_unavailable", args |-> <<>>]
                              ELSE [kind |-> "out_of_scope", args |-> <<>>]]
                ELSE [c |-> c1, parsed |-> Some(parsed), intent |-> intent,
                      parser |-> TRUE, msg |-> [kind |-> "", args |-> <<>>]]])])])

\* _parse_input: a pending question takes the text as its answer and the
\* parser is not run; q is what parse_user_prompt makes of the text.
\* parsed is Nothing where _parse_input returns a message.
parse_input(c, user_msg, q) ==
    let([pending \in {c.PENDING # Nothing /\ c.PENDING[1].need = "league"},
         league_name \in {strip(user_msg)} |->
        IF pending /\ lower(league_name) \notin DOMAIN SUPPORTED_LEAGUES_LC
        THEN not_a_league(c, league_name)
        ELSE let([parsed \in {IF pending
                              THEN [c.PENDING[1].parsed EXCEPT
                                       !.league_name =
                                           SUPPORTED_LEAGUES_LC[lower(league_name)]]
                              ELSE q},
                  intent \in {IF pending THEN c.PENDING[1].intent ELSE q.intent},
                  c1 \in {IF pending THEN [c EXCEPT !.PENDING = Nothing] ELSE c} |->
             let([s \in {parsed.sport} |->
                IF ~is_football(s)
                THEN [c |-> c1, parsed |-> Nothing, intent |-> "", parser |-> ~pending,
                      msg |-> IF s \in {"basketball", "rugby", "f1"}
                              THEN [kind |-> "coming_soon", args |-> <<s>>]
                              ELSE IF s = "other"
                              THEN [kind |-> "sport_unavailable", args |-> <<>>]
                              ELSE [kind |-> "out_of_scope", args |-> <<>>]]
                ELSE [c |-> c1, parsed |-> Some(parsed), intent |-> intent,
                      parser |-> ~pending, msg |-> [kind |-> "", args |-> <<>>]]])])])

\* what handle_query did besides replying: whether the parser ran, the
\* handler it dispatched to ("" for none) and what it handed the handler
outcome(r, parser, handler, parsed, lg_id, season, date) ==
    [c |-> r.c, msg |-> r.msg, parser |-> parser, handler |-> handler,
     parsed |-> parsed, lg_id |-> lg_id, season |-> season, date |-> date]

\* handle_query with the explicit season read before the date
HandleQuerySeasonFirst(c, user_msg, q, e) ==
    let([p \in {parse_input(c, user_msg, q)} |->
        IF p.parsed = Nothing
        THEN outcome(p, p.parser, "", Nothing, None, None, NoName)
        ELSE
    let([parsed0 \in {p.parsed[1]}, intent \in {p.intent} |->
    let([lg \in {IF parsed0.league_name # NoName
                 THEN league_name_to_id(p.c, parsed0.league_name, e.league, e.fail)
                 ELSE ok(p.c, None)},
         date \in {parsed0.date} |->
        IF lg.exc # ""
        THEN outcome(raised(lg), p.parser, "", Nothing, None, None, NoName)
        ELSE
    let([lg_id \in {lg.ret}, standardized_date \in {standardize_date(date)} |->
        IF date # NoName /\ standardized_date = NoName
        THEN outcome(reply(lg.c, "invalid_date", <<>>), p.parser, "", Nothing,
                     lg_id, None, date)
        ELSE
    let([parsed \in {IF date # NoName THEN [parsed0 EXCEPT !.date = standardized_date]
                     ELSE parsed0},
         season0 \in {IF normalize_season(parsed0.season) # NoName
                      THEN normalize_season(parsed0.season)
                      ELSE deduce_season_from_date(date)} |->
    let([season_i \in {parse_int(IF season0 = NoName THEN <<"2","0","2","4">>
                                 ELSE season0)} |->
        IF intent = "bracket"
        THEN outcome(handle_bracket(lg.c, parsed, lg_id, season_i, e),
                     p.parser, intent, Some(parsed), lg_id, season_i, date)
        ELSE IF intent = "standings"
        THEN outcome(handle_standings(lg.c, parsed, lg_id, season_i, e),
                     p.parser, intent, Some(parsed), lg_id, season_i, date)
        ELSE IF intent = "fixture"
        THEN outcome(handle_fixture(lg.c, parsed, lg_id, season_i, date, e),
                     p.parser, intent, Some(parsed), lg_id, season_i, date)
        ELSE IF intent = "match_events"
        THEN outcome(handle_match_events(lg.c, parsed, lg_id, season_i, date, e),
                     p.parser, intent, Some(parsed), lg_id, season_i, date)
        ELSE IF intent = "player_stats"
        THEN outcome(handle_player_stats(lg.c, parsed, lg_id, season_i, e),
                     p.parser, intent, Some(parsed), lg_id, season_i, date)
        ELSE outcome(reply(lg.c, "didnt_understand", <<>>), p.parser, "",
                     Some(parsed), lg_id, season_i, date)])])])])])])

\* handle_query with the standings handler for every other intent
HandleQueryDefaultStandings(c, user_msg, q, e) ==
    let([p \in {parse_input(c, user_msg, q)} |->
        IF p.parsed = Nothing
        THEN outcome(p, p.parser, "", Nothing, None, None, NoName)
        ELSE
    let([parsed0 \in {p.parsed[1]}, intent \in {p.intent} |->
    let([lg \in {IF parsed0.league_name # NoName
                 THEN league_name_to_id(p.c, parsed0.league_name, e.league, e.fail)
                 ELSE ok(p.c, None)},
         date \in {parsed0.date} |->
        IF lg.exc # ""
        THEN outcome(raised(lg), p.parser, "", Nothing, None, None, NoName)
        ELSE
    let([lg_id \in {lg.ret}, standardized_date \in {standardize_date(date)} |->
        IF date # NoName /\ standardized_date = NoName
        THEN outcome(reply(lg.c, "invalid_date", <<>>), p.parser, "", Nothing,
                     lg_id, None, date)
        ELSE
    let([parsed \in {IF date # NoName THEN [parsed0 EXCEPT !.date = standardized_date]
                     ELSE parsed0},
         season0 \in {IF date # NoName THEN deduce_season_from_date(date)
                      ELSE normalize_season(parsed0.season)} |->
    let([season_i \in {parse_int(IF season0 = NoName THEN <<"2","0","2","4">>
                                 ELSE season0)} |->
        IF intent = "bracket"
        THEN outcome(handle_bracket(lg.c, parsed, lg_id, season_i, e),
                     p.parser, intent, Some(parsed), lg_id, season_i, date)
        ELSE IF intent = "standings"
        THEN outcome(handle_standings(lg.c, parsed, lg_id, season_i, e),
                     p.parser, intent, Some(parsed), lg_id, season_i, date)
        ELSE IF intent = "fixture"
        THEN outcome(handle_fixture(lg.c, parsed, lg_id, season_i, date, e),
                     p.parser, intent, Some(parsed), lg_id, season_i, date)
        ELSE IF intent = "match_events"
        THEN outcome(handle_match_events(lg.c, parsed, lg_id, season_i, date, e),
                     p.parser, intent, Some(parsed), lg_id, season_i, date)
        ELSE IF intent = "player_stats"
        THEN outcome(handle_player_stats(lg.c, parsed, lg_id, season_i, e),
                     p.parser, intent, Some(parsed), lg_id, season_i, date)
        ELSE outcome(handle_standings(lg.c, parsed, lg_id, season_i, e),
                     p.parser, "standings", Some(parsed), lg_id, season_i, date)])])])])])])

\* handle_query
handle_query(c, user_msg, q, e) ==
    let([p \in {parse_input(c, user_msg, q)} |->
        IF p.parsed = Nothing
        THEN outcome(p, p.parser, "", Nothing, None, None, NoName)
        ELSE
    let([parsed0 \in {p.parsed[1]}, intent \in {p.intent} |->
    let([lg \in {IF parsed0.league_name # NoName
                 THEN league_name_to_id(p.c, parsed0.league_name, e.league, e.fail)
                 ELSE ok(p.c, None)},
         date \in {parsed0.date} |->
        IF lg.exc # ""
        THEN outcome(raised(lg), p.parser, "", Nothing, None, None, NoName)
        ELSE
    let([lg_id \in {lg.ret}, standardized_date \in {standardize_date(date)} |->
        IF date # NoName /\ standardized_date = NoName
        THEN outcome(reply(lg.c, "invalid_date", <<>>), p.parser, "", Nothing,
                     lg_id, None, date)
        ELSE
    let([parsed \in {IF date # NoName THEN [parsed0 EXCEPT !.date = standardized_date]
                     ELSE parsed0},
         season0 \in {IF date # NoName THEN deduce_season_from_date(date)
                      ELSE normalize_season(parsed0.season)} |->
    let([season_i \in {parse_int(IF season0 = NoName THEN <<"2","0","2","4">>
                                 ELSE season0)} |->
        IF intent = "bracket"
        THEN outcome(handle_bracket(lg.c, parsed, lg_id, season_i, e),
                     p.parser, intent, Some(parsed), lg_id, season_i, date)
        ELSE IF intent = "standings"
        THEN outcome(handle_standings(lg.c, parsed, lg_id, season_i, e),
                     p.parser, intent, Some(parsed), lg_id, season_i, date)
        ELSE IF intent = "fixture"
        THEN outcome(handle_fixture(lg.c, parsed, lg_id, season_i, date, e),
                     p.parser, intent, Some(parsed), lg_id, season_i, date)
        ELSE IF intent = "match_events"
        THEN outcome(handle_match_events(lg.c, parsed, lg_id, season_i, date, e),
                     p.parser, intent, Some(parsed), lg_id, season_i, date)
        ELSE IF intent = "player_stats"
        THEN outcome(handle_player_stats(lg.c, parsed, lg_id, season_i, e),
                     p.parser, intent, Some(parsed), lg_id, season_i, date)
        ELSE outcome(reply(lg.c, "didnt_understand", <<>>), p.parser, "",
                     Some(parsed), lg_id, season_i, date)])])])])])])

(***************************************************************************)
(* Bounds and input sets                                                   *)
(***************************************************************************)
MaxTeamId == 2
MaxRows == 2
MaxSeasonInt == 30

Mu == <<"M","u">>
Ch == <<"C","h">>
Ha == <<"H","a">>
En == <<"E","N">>

\* the arguments (name, league_id, season) the lookups are called with
TeamQueries == {<<Mu, None, None>>, <<lower(Mu), None, None>>, <<Mu, 39, 2024>>}
PlayerQueries == {<<lower(Ha), 39, 2024>>}

RemoteTeams == [id : 1..MaxTeamId, name : {Mu, Ch}, country : {En}]
RemotePlayers == [id : {7}, name : {Ha}, common : {Ha}]
TeamSearchResponses == {<<>>} \cup {<<t>> : t \in RemoteTeams}
PlayerSearchResponses == {<<>>} \cup {<<p>> : p \in RemotePlayers}

\* the (league_id, season) keys the standings cache is called with
CacheKeys == {<<39, 2022>>, <<39, 2024>>, <<140, 2024>>}
StatsOf(n) == [played |-> n, win |-> n - 1, draw |-> 1, lose |-> 0]
RowPool == <<[rank |-> 1, team |-> Mu, stats |-> StatsOf(12), gd |-> 15, pts |-> 34],
             [rank |-> 2, team |-> Ch, stats |-> StatsOf(10), gd |-> 0 - 3, pts |-> 28],
             [rank |-> 3, team |-> Ha, stats |-> StatsOf(1), gd |-> 0, pts |-> 1]>>
\* row lists: every rotation-free prefix pair of the pool, up to MaxRows rows
RowLists == {SubSeq(RowPool, i, j) : i \in 1..2, j \in 0..MaxRows}

(***************************************************************************)
(* Inputs of the dispatcher: what the user types, what the parser makes of *)
(* it and what the remote answers                                          *)
(***************************************************************************)
Epl == <<"E", "P", "L">>
Mls == <<"M", "L", "S">>
DayFirstDate == <<"1", "6", "-", "0", "5", "-", "2", "0", "2", "5">>
TypedPremierLeague == <<" ", "p", "r", "e", "m", "i", "e", "r", " ", "l",
    "e", "a", "g", "u", "e", " ">>
RoundOf16 == <<"R", "o", "u", "n", "d", " ", "o", "f", " ", "1", "6">>

\* a parsed query; absent fields are None
NoQuery == [intent |-> "unsupported", sport |-> "football", league_name |-> NoName,
            team_a |-> NoName, team_b |-> NoName, player_name |-> NoName,
            season |-> SeasonNone, date |-> NoName, which |-> NoName,
            count |-> None, stats_requested |-> <<>>,
            player_stats_requested |-> <<>>]

\* the parser's sentinel for a prompt it rejects or cannot validate
Sentinel == [NoQuery EXCEPT !.intent = "unsupported", !.sport = "other"]

\* SpecClarify: standings and bracket queries whose league is absent or
\* unknown to the remote, asked with and without a season and a date, with a
\* season text that does not normalize, and with a date in August 2025 next
\* to the season 2022/23; and a bracket query without a league that
\* supplies the teams, the player, the mode, the count and the stat tokens
ClarifyQueries ==
    {[NoQuery EXCEPT !.intent = "standings", !.league_name = l,
                     !.season = w[1], !.date = w[2]] :
         l \in {NoName, Epl},
         w \in {<<SeasonNone, NoName>>,
                <<SeasonStr(<<"2","0","2","2","/","2","3">>), NoName>>,
                <<SeasonNone, DayFirstDate>>,
                <<SeasonNone, <<"1","6",".","0","5",".","2","0","2","5">> >>,
                <<SeasonStr(<<"2","2","/","2","0","2","3">>), NoName>>,
                <<SeasonStr(<<"2","0","2","2","/","2","3">>),
                  <<"2","0","2","5","/","0","8","/","1","6">> >>}}
    \cup {[NoQuery EXCEPT !.intent = "bracket", !.league_name = l] :
              l \in {NoName, Epl}}
    \cup {[NoQuery EXCEPT !.intent = "bracket", !.player_name = Ha,
                          !.team_a = Mu, !.team_b = Ch,
                          !.which = ModeLast, !.count = 5,
                          !.stats_requested = << <<"G","o","a","l","s">> >>,
                          !.player_stats_requested = << <<"g","o","a","l","s">> >>]}
ClarifyTexts == {TypedPremierLeague, ChampionsLeague, <<"S","e","r","i","e"," ","B">>}

\* SpecDispatch: every intent and every sport, with a league the remote
\* knows but the chatbot does not support
DispatchQueries ==
    {[NoQuery EXCEPT !.intent = i, !.league_name = l, !.team_a = Mu, !.team_b = Ch,
                     !.player_name = Ha, !.which = ModeLast] :
         i \in {"standings", "fixture", "match_events", "player_stats", "bracket",
                "odds", "head_to_head", "unsupported"},
         l \in {Mls, PremierLeague}}
    \cup {[NoQuery EXCEPT !.intent = "player_stats", !.league_name = l,
                          !.player_name = Ha] :
              l \in {NoName, Epl}}
    \cup {[NoQuery EXCEPT !.intent = "standings", !.sport = s,
                          !.league_name = PremierLeague] :
              s \in {"basketball", "rugby", "f1", "nonsport"}}
    \cup {Sentinel}
DispatchTexts == {TypedPremierLeague}

\* the league the remote search lists first for a name
League(id) == [league |-> [id |-> id]]

TeamAnswers(name) ==
    {<<>>} \cup {<<t>> : t \in {x \in RemoteTeams :
                                   x.name = name /\ x.id = IF name = Mu THEN 1 ELSE 2}}

ApiRow(r) == [rank |-> r.rank, team |-> [name |-> r.team], all |-> r.stats,
              goalsDiff |-> r.gd, points |-> r.pts, group |-> <<"G","r","o","u","p"," ","A">>]
Table == <<[league |-> [standings |-> <<[i \in 1..MaxRows |-> ApiRow(RowPool[i])]>>]]>>

Fixture(id, league_id) ==
    [fixture |-> [id |-> id,
                  date |-> <<"2","0","2","5","-","0","5","-","1","6","T","1","9",":","0","0">>],
     league |-> [id |-> league_id],
     teams |-> [home |-> [name |-> Mu, winner |-> TRUE],
                away |-> [name |-> Ch, winner |-> FALSE]]]

\* What the remote can answer, by request: leagues gives the search results
\* by league name (nothing for a name it does not list), found says whether a
\* team search may find the team, and the other fields are the responses of
\* the data endpoints; failures says how a turn's requests may fail.
ClarifyAnswers ==
    [leagues |-> (PremierLeague :> {<<>>, <<League(39)>>})
                 @@ (ChampionsLeague :> {<<League(2)>>}),
     found |-> {FALSE},
     players |-> {<<>>},
     infer |-> {<<>>},
     standings |-> {Table},
     fixtures |-> {<<>>},
     stages |-> {<<RoundOf16, SemiFinals, Final>>},
     bracket |-> {[st \in {RoundOf16, SemiFinals, Final} |-> <<Fixture(11, 2)>>]},
     events |-> {<<>>},
     statistics |-> {<<>>},
     player_stats |-> {<<>>},
     failures |-> {"", "unreachable"}]

DispatchAnswers ==
    [leagues |-> (PremierLeague :> {<<League(39)>>}) @@ (Mls :> {<<League(253)>>}),
     found |-> {FALSE, TRUE},
     players |-> PlayerSearchResponses \ {<<>>},
     infer |-> {<<>>},
     standings |-> {Table},
     fixtures |-> {<<>>, <<Fixture(11, 39)>>},
     stages |-> {<<RoundOf16, SemiFinals, Final>>},
     bracket |-> {[st \in {RoundOf16, SemiFinals, Final} |-> <<Fixture(11, 39)>>]},
     events |-> {<<[type |-> <<"G","o","a","l">>, detail |-> <<>>],
                   [type |-> <<"C","a","r","d">>, detail |-> <<"Y","e","l","l","o","w">>]>>},
     statistics |-> {<<[team |-> Mu, statistics |-> <<>>]>>},
     player_stats |-> {<<[player |-> [id |-> 7, name |-> Ha]]>>},
     failures |-> {""}]

\* The answers the remote search can give to a lookup: any of them when the
\* lookup reaches the search, and none to choose when it does not.
searched(memo, tbl, q, responses) ==
    IF q \in DOMAIN memo \/ select_ids(tbl, q[1]) # {}
    THEN {<<>>} ELSE responses

team_found(A, name) ==
    {r \in TeamAnswers(name) : (r # <<>>) \in A.found}

\* The answers the remote can give in a turn that handles the query parsed
\* from the state c: every answer of A where the turn can reach the request,
\* and one to choose where it cannot.
Remote(A, c, parsed, intent) ==
    [league : IF parsed.league_name \in DOMAIN A.leagues
                 /\ parsed.league_name \notin DOMAIN c.league_memo
              THEN A.leagues[parsed.league_name] ELSE {<<>>},
     team_a : IF intent \in {"fixture", "match_events"} /\ parsed.team_a # NoName
              THEN searched(c.team_memo, c.team, <<parsed.team_a, None, None>>,
                            team_found(A, parsed.team_a))
              ELSE {<<>>},
     team_b : IF intent \in {"fixture", "match_events"} /\ parsed.team_b # NoName
              THEN searched(c.team_memo, c.team, <<parsed.team_b, None, None>>,
                            team_found(A, parsed.team_b))
              ELSE {<<>>},
     player : IF intent = "player_stats" THEN A.players ELSE {<<>>},
     infer : IF intent \in {"fixture", "match_events"} /\ parsed.league_name = NoName
             THEN A.infer ELSE {<<>>},
     standings : IF intent = "standings" THEN A.standings ELSE {<<>>},
     fixtures : IF intent \in {"fixture", "match_events"}
                THEN A.fixtures ELSE {<<>>},
     stages : IF intent \in {"bracket", "standings"} THEN A.stages ELSE {<<>>},
     bracket : IF intent \in {"bracket", "standings"} THEN A.bracket ELSE {EmptyMap},
     events : IF intent = "match_events" THEN A.events ELSE {<<>>},
     statistics : IF intent = "match_events" THEN A.statistics ELSE {<<>>},
     player_stats : IF intent = "player_stats" THEN A.player_stats ELSE {<<>>},
     fail : A.failures]

NoAnswers == [league |-> <<>>, team_a |-> <<>>, team_b |-> <<>>, player |-> <<>>,
              infer |-> <<>>, standings |-> <<>>, fixtures |-> <<>>, stages |-> <<>>,
              bracket |-> EmptyMap,
              events |-> <<>>, statistics |-> <<>>, player_stats |-> <<>>, fail |-> ""]

(***************************************************************************)
(* Resolver calls made one at a time (the resolver's API)                  *)
(***************************************************************************)
NoCall == [op |-> "init", key |-> <<>>, ret |-> Nothing, nreq |-> 0,
           cached |-> {}, wrote |-> FALSE, ignored |-> FALSE, rep |-> FALSE,
           pret |-> Nothing, pnreq |-> 0, rows |-> <<>>]

\* the history of a turn: the text typed and, where the parser ran, the
\* query it made of it; what PENDING held when the turn began; the reply, the
\* handler dispatched to with what it was handed, and the remote requests
\* issued, in order
NoTurn == [op |-> "init", text |-> <<>>, query |-> Nothing, before |-> Nothing,
           msg |-> [kind |-> "", args |-> <<>>], parser |-> FALSE, handler |-> "",
           parsed |-> Nothing, lg_id |-> None, season |-> None, date |-> NoName,
           reqs |-> <<>>]

Init ==
    /\ team = {}
    /\ player = {}
    /\ standings_cache = EmptyMap
    /\ team_memo = EmptyMap
    /\ player_memo = EmptyMap
    /\ league_memo = EmptyMap
    /\ api_memo = EmptyMap
    /\ PENDING = Nothing
    /\ written = {}
    /\ call = NoCall
    /\ turn = NoTurn

\* what one identity lookup leaves in the history variable
lookup_call(op, key, tbl, r, resp) ==
    [op |-> op, key |-> key, ret |-> Some(r.ret), nreq |-> Len(r.reqs),
     cached |-> select_ids(tbl, key[1]), wrote |-> r.tbl # tbl,
     ignored |-> r.reqs # <<>> /\ resp # <<>> /\ r.tbl = tbl,
     rep |-> call.op = op /\ call.key = key,
     pret |-> IF call.op = op /\ call.key = key THEN call.ret ELSE Nothing,
     pnreq |-> IF call.op = op /\ call.key = key THEN call.nreq ELSE 0,
     rows |-> <<>>]

TeamCall ==
    \E q \in TeamQueries :
      \E resp \in searched(team_memo, team, q, TeamSearchResponses) :
        \E r \in {team_name_to_id(team_memo, team, q[1], q[2], q[3], resp)} :
           /\ team' = r.tbl
           /\ team_memo' = r.memo
           /\ call' = lookup_call("team", q, team, r, resp)
           /\ UNCHANGED <<player, player_memo, standings_cache, written,
                          league_memo, api_memo, PENDING, turn>>

PlayerCall ==
    \E q \in PlayerQueries :
      \E resp \in searched(player_memo, player, q, PlayerSearchResponses) :
        \E r \in {player_name_to_id(player_memo, player, q[1], q[2], q[3], resp)} :
           /\ player' = r.tbl
           /\ player_memo' = r.memo
           /\ call' = lookup_call("player", q, player, r, resp)
           /\ UNCHANGED <<team, team_memo, standings_cache, written,
                          league_memo, api_memo, PENDING, turn>>

\* A new process: the lru_caches start empty and PENDING is None, the
\* SQLite file is kept.
Restart ==
    /\ team_memo' = EmptyMap
    /\ player_memo' = EmptyMap
    /\ league_memo' = EmptyMap
    /\ api_memo' = EmptyMap
    /\ PENDING' = Nothing
    /\ call' = [NoCall EXCEPT !.op = "restart"]
    /\ turn' = [NoTurn EXCEPT !.op = "restart"]
    /\ UNCHANGED <<team, player, standings_cache, written>>

CacheStandingsCall ==
    \E k \in CacheKeys, rows \in RowLists :
        /\ standings_cache' = cache_standings(standings_cache, k[1], k[2], rows)
        /\ written' = written \cup {k}
        /\ call' = [NoCall EXCEPT !.op = "cache", !.key = k, !.rows = rows,
                                  !.rep = (call.op = "cache" /\ call.key = k),
                                  !.pret = IF call.op = "cache" /\ call.key = k
                                           THEN Some(call.rows) ELSE Nothing]
        /\ UNCHANGED <<team, player, team_memo, player_memo, league_memo,
                       api_memo, PENDING, turn>>

LoadStandingsCall ==
    \E k \in CacheKeys :
        /\ call' = [NoCall EXCEPT !.op = "load", !.key = k,
                                  !.ret = load_standings_cache(standings_cache, k[1], k[2])]
        /\ UNCHANGED <<team, player, team_memo, player_memo, standings_cache,
                       written, league_memo, api_memo, PENDING, turn>>

\* the state handle_query runs in
ctx == [PENDING |-> PENDING, league_memo |-> league_memo, team_memo |-> team_memo,
        player_memo |-> player_memo, api_memo |-> api_memo, team |-> team,
        player |-> player, standings_cache |-> standings_cache, reqs |-> <<>>]

\* One turn of the chat loop: handle_query on the text the user types, with
\* the query the parser makes of it and the answers the remote gives.  While
\* a question is pending the parser is not run, so there is no query to
\* choose; when none is pending the text counts only through the query.
TurnOn(Texts, Queries, A) ==
    \E user_msg \in IF PENDING # Nothing THEN Texts ELSE {NoName},
       q \in IF PENDING # Nothing THEN {NoQuery} ELSE Queries :
      \E p \in {parse_input(ctx, user_msg, q)} :
        \E e \in IF p.parsed = Nothing THEN {NoAnswers}
                 ELSE Remote(A, p.c, p.parsed[1], p.intent) :
          \E r \in {handle_query(ctx, user_msg, q, e)} :
              /\ PENDING' = r.c.PENDING
              /\ league_memo' = r.c.league_memo
              /\ team_memo' = r.c.team_memo
              /\ player_memo' = r.c.player_memo
              /\ api_memo' = r.c.api_memo
              /\ team' = r.c.team
              /\ player' = r.c.player
              /\ standings_cache' = r.c.standings_cache
              /\ written' = IF r.c.standings_cache # standings_cache
                            THEN written \cup {<<r.lg_id, r.season>>} ELSE written
              /\ turn' = [op |-> "turn", text |-> user_msg,
                          query |-> IF r.parser THEN Some(q) ELSE Nothing,
                          before |-> PENDING, msg |-> r.msg, parser |-> r.parser,
                          handler |-> r.handler, parsed |-> r.parsed,
                          lg_id |-> r.lg_id, season |-> r.season, date |-> r.date,
                          reqs |-> r.c.reqs]
              /\ UNCHANGED call

\* One turn as TurnOn takes it, with the answers the remote gave in the turn
\* kept in the history variable call.
TurnSeen(Texts, Queries, A) ==
    \E user_msg \in IF PENDING # Nothing THEN Texts ELSE {NoName},
       q \in IF PENDING # Nothing THEN {NoQuery} ELSE Queries :
      \E p \in {parse_input(ctx, user_msg, q)} :
        \E e \in IF p.parsed = Nothing THEN {NoAnswers}
                 ELSE Remote(A, p.c, p.parsed[1], p.intent) :
          \E r \in {handle_query(ctx, user_msg, q, e)} :
              /\ PENDING' = r.c.PENDING
              /\ league_memo' = r.c.league_memo
              /\ team_memo' = r.c.team_memo
              /\ player_memo' = r.c.player_memo
              /\ api_memo' = r.c.api_memo
              /\ team' = r.c.team
              /\ player' = r.c.player
              /\ standings_cache' = r.c.standings_cache
              /\ written' = IF r.c.standings_cache # standings_cache
                            THEN written \cup {<<r.lg_id, r.season>>} ELSE written
              /\ turn' = [op |-> "turn", text |-> user_msg,
                          query |-> IF r.parser THEN Some(q) ELSE Nothing,
                          before |-> PENDING, msg |-> r.msg, parser |-> r.parser,
                          handler |-> r.handler, parsed |-> r.parsed,
                          lg_id |-> r.lg_id, season |-> r.season, date |-> r.date,
                          reqs |-> r.c.reqs]
              /\ call' = [NoCall EXCEPT !.op = "answers", !.key = e]

\* a UEFA standings response of two group tables
GroupTables ==
    <<[league |-> [standings |->
        << <<ApiRow(RowPool[1])>>,
           <<[ApiRow(RowPool[2]) EXCEPT !.group = <<"G","r","o","u","p"," ","B">>]>> >>]]>>

\* Standings turns: a domestic league and a UEFA competition, in the
\* league-phase season and in a group-stage season, for the table or for one
\* team's rank; the remote answers with one table, with group tables or with
\* nothing, and the process may restart between turns.
TurnReadThrough ==
    TurnSeen({TypedPremierLeague},
        {[NoQuery EXCEPT !.intent = "standings", !.league_name = PremierLeague,
                         !.team_a = t] : t \in {NoName, Mu}}
        \cup {[NoQuery EXCEPT !.intent = "standings", !.league_name = ChampionsLeague,
                              !.season = w, !.team_a = t] :
                  w \in {SeasonNone, SeasonStr(<<"2","0","2","3","/","2","4">>)},
                  t \in {NoName, Mu}},
        [ClarifyAnswers EXCEPT
            !.leagues = (PremierLeague :> {<<League(39)>>})
                        @@ (ChampionsLeague :> {<<League(2)>>}),
            !.standings = {Table, GroupTables, <<>>},
            !.stages = {<<SemiFinals, Final>>},
            !.bracket = {(Final :> <<Fixture(11, 2)>>)
                         @@ (SemiFinals :> <<Fixture(12, 2), Fixture(13, 2)>>)},
            !.failures = {"", "unreachable", "status"}])

SpecReadThrough == Init /\ [][TurnReadThrough \/ Restart]_vars

\* Turns against a remote that answers each request the same way every time
\* (two fixtures of the pair, a day apart), each taken beside the same turn of
\* a process whose lru_caches hold nothing: the reply of that turn is kept in
\* the history variable call.  Both see the same SQLite tables.
TurnMemo ==
    \E q \in {[NoQuery EXCEPT !.intent = "match_events", !.league_name = PremierLeague,
                              !.team_a = a, !.team_b = b, !.date = d,
                              !.stats_requested = w] :
                   a \in {Mu}, b \in {Ch},
                   d \in {NoName, <<"2","0","2","5","-","0","5","-","1","6">>,
                          <<"2","0","2","5","-","0","5","-","1","7">>},
                   w \in {<<>>, << <<"G","o","a","l","s">> >>,
                          << <<"f","o","u","l","s">> >>,
                          << <<"x","g">> >>,
                          << <<"Y","e","l","l","o","w","_","c","a","r","d","s">>,
                             <<"F","o","u","l","s">> >>}}
              \cup {[NoQuery EXCEPT !.intent = i, !.league_name = PremierLeague,
                                    !.team_a = Mu, !.team_b = Ch, !.which = ModeLast] :
                        i \in {"fixture", "standings"}} :
      \E e \in {[NoAnswers EXCEPT
                    !.league = <<League(39)>>,
                    !.team_a = CHOOSE r \in TeamAnswers(q.team_a) : r # <<>>,
                    !.team_b = CHOOSE r \in TeamAnswers(q.team_b) : r # <<>>,
                    !.standings = Table,
                    !.fixtures = <<Fixture(11, 39),
                                   [Fixture(12, 39) EXCEPT !.fixture.date =
                                       <<"2","0","2","5","-","0","5","-","1","7",
                                         "T","1","9",":","0","0">>]>>,
                    !.events = <<[type |-> <<"G","o","a","l">>, detail |-> <<>>],
                                 [type |-> <<"C","a","r","d">>,
                                  detail |-> <<"Y","e","l","l","o","w">>],
                                 [type |-> <<"C","a","r","d">>,
                                  detail |-> <<"R","e","d">>],
                                 [type |-> <<"s","u","b","s","t">>, detail |-> <<>>]>>,
                    !.statistics = <<[team |-> Mu, statistics |-> <<>>]>>]} :
        \E r \in {handle_query(ctx, NoName, q, e)},
           plain \in {handle_query([ctx EXCEPT !.league_memo = EmptyMap,
                                               !.team_memo = EmptyMap,
                                               !.player_memo = EmptyMap,
                                               !.api_memo = EmptyMap],
                                   NoName, q, e)} :
            /\ PENDING = Nothing
            /\ PENDING' = r.c.PENDING
            /\ league_memo' = r.c.league_memo
            /\ team_memo' = r.c.team_memo
            /\ player_memo' = r.c.player_memo
            /\ api_memo' = r.c.api_memo
            /\ team' = r.c.team
            /\ player' = r.c.player
            /\ standings_cache' = r.c.standings_cache
            /\ written' = IF r.c.standings_cache # standings_cache
                          THEN written \cup {<<r.lg_id, r.season>>} ELSE written
            /\ turn' = [op |-> "turn", text |-> NoName, query |-> Some(q),
                        before |-> PENDING, msg |-> r.msg, parser |-> r.parser,
                        handler |-> r.handler, parsed |-> r.parsed,
                        lg_id |-> r.lg_id, season |-> r.season, date |-> r.date,
                        reqs |-> r.c.reqs]
            /\ call' = [NoCall EXCEPT !.op = "plain", !.key = plain.msg,
                                      !.nreq = Len(plain.c.reqs),
                                      !.rep = /\ plain.c.team = r.c.team
                                              /\ plain.c.standings_cache
                                                     = r.c.standings_cache
                                              /\ plain.c.PENDING = r.c.PENDING]

SpecMemo == Init /\ [][TurnMemo \/ Restart]_vars

\* normalize_season called on a season the parser may hand over, an integer
\* or a text (start year, separator, end year, with or without blanks around
\* it; and every pair of two-digit years YY/YY+1), and called again on what
\* it returned; both results are kept in the history variable call.
NormalizeCall ==
    \E x \in {SeasonInt(n) : n \in 0..MaxSeasonInt}
              \cup {SeasonInt(2000 + n) : n \in 0..MaxSeasonInt}
              \cup {SeasonStr(l \o y1 \o sep \o y2 \o l) :
                       l \in {<<>>, <<" ">>},
                       y1 \in {<<"2","2">>, <<"5","0">>, <<"1","9","9","9">>, <<"2","0","2","1">>},
                       sep \in {<<>>, <<"/">>, <<"-">>, <<" ","/"," ">>},
                       y2 \in {<<>>, <<"3">>, <<"2","3">>, <<"0","2","3">>, <<"2","0","2","3">>, <<"2","0","2","3","4">>}}
              \cup {SeasonStr(pad(digits(n), 2) \o sep \o pad(digits((n + 1) % 100), 2)) :
                       n \in 0..99, sep \in {<<"/">>, <<"-">>}} :
      \E once \in {normalize_season(x)} :
        /\ call.op # "date"
        /\ call' = [NoCall EXCEPT
                        !.op = "normalize", !.key = x, !.ret = Some(once),
                        !.pret = IF once = NoName THEN Nothing
                                 ELSE Some(normalize_season(SeasonStr(once)))]
        /\ UNCHANGED <<team, player, standings_cache, team_memo, player_memo,
                       league_memo, api_memo, PENDING, written, turn>>

\* standardize_date and deduce_season_from_date called on a text of three
\* fields and two separators (and on texts that are no date at all); the
\* fields and both results are kept in the history variable call.  The
\* fields are days, months and years of one, two and four digits, a day
\* written with a blank, and a year before 1000.  The functions keep no
\* state, so a behaviour takes one such call, from the initial state.
DateCall ==
  \E fields \in {{<<"5">>, <<"0","2">>, <<"1","3">>, <<"1","6">>, <<"2","9">>,
                  <<"3","1">>, <<"2","5">>, <<"6","9">>, <<" ","1">>,
                  <<"0","9","9","9">>, <<"2","0","2","4">>, <<"2","0","2","5">>}} :
    \E x \in {<<a, s1, b, s2, c>> :
                 a \in fields, b \in fields, c \in fields,
                 s1 \in {<<"-">>, <<"/">>}, s2 \in {<<"-">>, <<"/">>}}
              \cup {<<NoName, NoName, NoName, NoName, NoName>>,
                    <<<<"n","o","t">>, <<" ">>, <<"a">>, <<" ">>, <<"d","a","t","e">>>>,
                    <<<<" ","1","6">>, <<"-">>, <<"0","5">>, <<"-">>,
                      <<"2","0","2","5"," ">>>>,
                    <<<<"2","0","2","5">>, <<"-">>, <<"0","5">>, <<"-">>,
                      <<"1","6","T","1","9",":","0","0">>>>} :
        /\ call.op = "init"
        /\ call' = [NoCall EXCEPT
                        !.op = "date", !.key = x[1] \o x[2] \o x[3] \o x[4] \o x[5],
                        !.rows = x,
                        !.ret = Some(standardize_date(
                                    x[1] \o x[2] \o x[3] \o x[4] \o x[5])),
                        !.pret = Some(deduce_season_from_date(
                                    x[1] \o x[2] \o x[3] \o x[4] \o x[5]))]
        /\ UNCHANGED <<team, player, standings_cache, team_memo, player_memo,
                       league_memo, api_memo, PENDING, written, turn>>

SpecSeason == Init /\ [][NormalizeCall \/ DateCall]_vars

\* SpecFixture: fixture queries that name no league, about one team in
\* every mode and about two teams by date, over a season and for the last
\* meeting; the remote knows both teams and their one fixture, of 16 May
\* 2025, and lists it or nothing as their most recent meeting; it may fail
\* to find a team
SpecFixture ==
    Init /\ [][TurnSeen({TypedPremierLeague},
        {[NoQuery EXCEPT !.intent = "fixture", !.team_a = Mu, !.which = w] :
             w \in {ModeNext, ModeLast, ModeSpecific, ModeSeason, NoName,
                    <<"h","e","a","d","_","t","o","_","h","e","a","d">>,
                    <<"l","a","t","e","s","t">>}}
        \cup {[NoQuery EXCEPT !.intent = "fixture", !.team_a = Mu, !.team_b = Ch,
                              !.which = w[1], !.date = w[2]] :
                  w \in {<<ModeSpecific, NoName>>,
                         <<ModeSpecific, DayFirstDate>>,
                         <<ModeSpecific, <<"2","0","2","5","-","0","5","-","1","6">> >>,
                         <<ModeSeason, NoName>>,
                         <<ModeLast, NoName>>}},
        [ClarifyAnswers EXCEPT
            !.leagues = (PremierLeague :> {<<League(39)>>}),
            !.found = {FALSE, TRUE},
            !.infer = {<<>>, <<Fixture(11, 39)>>},
            !.fixtures = {<<Fixture(11, 39)>>},
            !.failures = {""}])]_vars

TurnClarify == TurnOn(ClarifyTexts, ClarifyQueries, ClarifyAnswers)
TurnDispatch == TurnOn(DispatchTexts, DispatchQueries, DispatchAnswers)

NextResolver == TeamCall \/ PlayerCall \/ Restart
SpecResolver == Init /\ [][NextResolver]_vars

NextStandings == CacheStandingsCall \/ LoadStandingsCall
SpecStandings == Init /\ [][NextStandings]_vars

NextClarify == TurnClarify
SpecClarify == Init /\ [][NextClarify]_vars

NextDispatch == TurnDispatch
SpecDispatch == Init /\ [][NextDispatch]_vars

(***************************************************************************)
(* Claims about the identity resolver (SpecResolver)                       *)
(***************************************************************************)
IsLookup == call.op \in {"team", "player"}

\* C6 (as claimed): team_name_to_id does not cache a miss: when the identical
\* call before this one returned none and the persistent cache still has no
\* entry for the name, this call issues the remote search again.
C6_MissIsRetried ==
    (call.op = "team" /\ call.rep /\ call.pret = Some(None) /\ call.cached = {})
        => call.nreq = 1

\* C7: two consecutive calls of team_name_to_id, or of player_name_to_id, with
\* the same arguments issue at most one remote search in total and return the
\* same id.
C7_Memoizing ==
    (IsLookup /\ call.rep) => /\ call.ret = call.pret
                              /\ call.pnreq + call.nreq <= 1

\* C7 witness: a team lookup that searched the remote and got an id has just
\* been repeated with the same arguments.
C7_Witness ==
    call.op = "team" /\ call.rep /\ call.pnreq = 1 /\ call.ret # Some(None)

\* C8: identity-cache rows are write-once: no step deletes a row of the team or
\* player table or changes its id, name or country/common name (ids stay
\* unique, so a colliding remote result is dropped, not merged).
C8_Step ==
    /\ team \subseteq team'
    /\ player \subseteq player'
    /\ \A r1, r2 \in team' \cup player' : r1.id = r2.id => r1 = r2
C8_WriteOnce == [][C8_Step]_vars

\* C8 witness: a remote result whose id was already stored under another name
\* came back from the search and the table kept the stored row.
C8_Witness == call.op = "team" /\ call.ignored /\ team # {}

\* C9 (as claimed): when the persistent cache holds an entry whose name equals
\* the queried name case-insensitively, the lookup returns that entry's id,
\* issues no remote search and writes nothing.
C9_CacheHitServed ==
    (IsLookup /\ call.cached # {})
        => /\ \E i \in call.cached : call.ret = Some(i)
           /\ call.nreq = 0
           /\ ~call.wrote

(***************************************************************************)
(* Claims about the standings cache (SpecStandings)                        *)
(***************************************************************************)
C10_State ==
    /\ call.op = "cache" =>
          load_standings_cache(standings_cache, call.key[1], call.key[2])
              = Some(call.rows)
    /\ (call.op = "load" /\ call.key \notin written) => call.ret = Nothing

C10_Step ==
    call'.op = "cache" =>
        \A k \in CacheKeys \ {call'.key} :
            load_standings_cache(standings_cache', k[1], k[2])
                = load_standings_cache(standings_cache, k[1], k[2])

\* C10: after cache_standings(L, S, rows), load_standings_cache(L, S) returns
\* rows, also when (L, S) already held other rows; the entries under every
\* other key are unchanged; load of a key never written returns none.
C10_RoundTrip == [](C10_State) /\ [][C10_Step]_vars

\* C10 witness: a key that held rows has been written again with other rows
\* while another key holds an entry.
C10_Witness ==
    /\ call.op = "cache" /\ call.rep /\ call.pret # Some(call.rows)
    /\ call.rows # <<>>
    /\ \E k \in written : k # call.key

(***************************************************************************)
(* Claims about the dispatcher (SpecClarify, SpecDispatch)                 *)
(***************************************************************************)
IsTurn == turn.op = "turn"

\* the requests of a turn that went through the remote fetcher (_call)
Fetches(reqs) == {i \in DOMAIN reqs : "via" \in DOMAIN reqs[i]}

\* the text names a supported league, trimmed and whatever its case
is_supported_text(t) == lower(strip(t)) \in DOMAIN SUPPORTED_LEAGUES_LC
canonical(t) == SUPPORTED_LEAGUES_LC[lower(strip(t))]

\* the league search of the turn t raised
LeagueSearchFails(t) ==
    t.msg.kind = "raised" /\ t.handler = "" /\ t.msg.args = <<"ConnectionError">>

\* the query the last turn worked on: the parser's, or the stored one with
\* the league the user named
Asked ==
    IF turn.parser THEN turn.query
    ELSE IF turn.before # Nothing /\ is_supported_text(turn.text)
         THEN Some([turn.before[1].parsed EXCEPT !.league_name = canonical(turn.text)])
         ELSE Nothing

StandingsStalls ==
    /\ IsTurn /\ Asked # Nothing
    /\ Asked[1].intent = "standings"
    /\ turn.lg_id = None /\ ~LeagueSearchFails(turn)

Stored(parsed) == Some([need |-> "league", intent |-> parsed.intent, parsed |-> parsed])

C1_StallAsClaimed ==
    StandingsStalls => /\ turn.msg.kind = "ask_for_league"
                       /\ PENDING = Stored(Asked[1])

C1_ResumeAsClaimed ==
    (/\ IsTurn /\ turn.handler = "standings" /\ turn.msg.kind = "ask_for_league"
     /\ turn'.op = "turn" /\ is_supported_text(turn'.text))
    => /\ ~turn'.parser
       /\ turn'.handler = "standings"
       /\ turn'.parsed = Some([PENDING[1].parsed EXCEPT
                                  !.league_name = canonical(turn'.text)])
       /\ turn'.season = turn.season
       /\ turn'.parsed[1].date = turn.parsed[1].date

C1_Stall ==
    (/\ StandingsStalls
     /\ Asked[1].sport = "football"
     /\ Asked[1].date # NoName => standardize_date(Asked[1].date) # NoName)
    => /\ turn.msg.kind = "ask_for_league"
       /\ turn.handler = "standings"
       /\ PENDING = Stored([Asked[1] EXCEPT !.date = standardize_date(@)])

C1_Resume ==
    (/\ IsTurn /\ turn.handler = "standings" /\ turn.msg.kind = "ask_for_league"
     /\ turn'.op = "turn" /\ is_supported_text(turn'.text))
    => /\ ~turn'.parser
       /\ ~LeagueSearchFails(turn') =>
            /\ turn'.handler = "standings"
            /\ turn'.parsed = Some([PENDING[1].parsed EXCEPT
                                       !.league_name = canonical(turn'.text)])
            /\ turn'.season = turn.season
            /\ turn'.parsed[1].date = turn.parsed[1].date

C2_StepAsClaimed ==
    (PENDING # Nothing /\ turn'.op = "turn")
    => /\ ~turn'.parser
       /\ PENDING' = Nothing \/ turn'.msg.kind = "ask_for_league"

\* C2 (as claimed): whenever PENDING is set at the start of a turn, the turn
\* consumes it: PENDING is cleared before dispatch whatever the text is, and
\* is set after the turn only if the turn stalls again and writes a new one.
C2_AsClaimed == [][C2_StepAsClaimed]_vars

C2_Step ==
    (PENDING # Nothing /\ turn'.op = "turn")
    => /\ ~turn'.parser
       /\ IF is_supported_text(turn'.text)
          THEN \/ PENDING' = Nothing
               \/ /\ turn'.msg.kind = "ask_for_league"
                  /\ PENDING' = Stored(turn'.parsed[1])
                  /\ turn'.parsed[1].league_name = canonical(turn'.text)
          ELSE /\ PENDING' = PENDING
               /\ turn'.msg = league_not_supported_msg(strip(turn'.text))
               /\ turn'.handler = "" /\ turn'.reqs = <<>>

\* C2 (amended): whenever PENDING is set at the start of a turn, the parser
\* is not run; if the text is, trimmed and in any case, a supported league
\* name, PENDING is cleared before dispatch and is set after the turn only if
\* the turn stalls again and stores the query under the league just named;
\* for any other text the turn returns the league-not-supported message,
\* dispatches nothing, issues no request and leaves PENDING as it was.
C2_Consumed == [][C2_Step]_vars

C2_Witness ==
    /\ IsTurn /\ turn.before # Nothing /\ ~is_supported_text(turn.text)
    /\ PENDING = turn.before /\ turn.msg.kind = "league_not_supported"

C3_Step ==
    (/\ turn'.op = "turn"
     /\ \/ turn'.parser /\ turn'.query[1].sport # "football"
        \/ /\ ~turn'.parser /\ is_supported_text(turn'.text)
           /\ PENDING[1].parsed.sport # "football")
    => /\ turn'.reqs = <<>>
       /\ UNCHANGED <<PENDING, standings_cache, team, player, team_memo,
                      player_memo, league_memo, api_memo>>

\* C3: a turn whose parsed sport is not football issues no remote request
\* (no league, team or player search and no data fetch) and leaves PENDING,
\* the standings cache and the identity cache, with the in-memory memos, as
\* they were.
C3_NonFootballIsInert == [][C3_Step]_vars

C3_Witness ==
    /\ IsTurn /\ turn.parser /\ turn.query[1].sport = "basketball"
    /\ turn.query[1].league_name = PremierLeague
    /\ turn.msg.kind = "coming_soon"
    /\ standings_cache # EmptyMap /\ team # {} /\ api_memo # EmptyMap

\* C4 (as claimed): in a standings or bracket turn whose league name is
\* absent or resolves to no id, PENDING is set with need = league, the reply
\* is the clarification prompt and no data fetch is issued.
C4_LeagueRequired ==
    (IsTurn /\ turn.handler \in {"standings", "bracket"} /\ turn.lg_id = None)
    => /\ PENDING = Stored(turn.parsed[1])
       /\ PENDING[1].need = "league"
       /\ turn.msg.kind = "ask_for_league"
       /\ Fetches(turn.reqs) = {}

\* C5 (as claimed): in a turn of any of the five intents whose league
\* resolves to an id outside the supported set, the reply is the fixed
\* capability message and no request goes to the remote fetcher.
C5_UnsupportedLeagueNotFetched ==
    (/\ IsTurn
     /\ turn.handler \in {"standings", "fixture", "match_events", "player_stats",
                          "bracket"}
     /\ turn.lg_id # None /\ turn.lg_id \notin SUPPORTED_LEAGUES_IDS)
    => /\ turn.msg.kind = "league_not_supported"
       /\ Fetches(turn.reqs) = {}

(***************************************************************************)
(* Claims about standings turns (SpecReadThrough)                          *)
(***************************************************************************)
\* the turn t went to the standings handler with a supported domestic league
IsDomestic(t) ==
    /\ t.op = "turn" /\ t.handler = "standings"
    /\ t.lg_id \in SUPPORTED_LEAGUES_IDS \ UEFA_IDS

\* the requests of a turn that fetched standings from the remote
StandingsFetches(reqs) == {i \in Fetches(reqs) : reqs[i].ep = "standings"}

\* the reply of the turn t is the one the standings handler makes of rows
RepliesFrom(t, rows) ==
    IF t.parsed[1].team_a = NoName
    THEN /\ t.msg.kind = "fmt_standings"
         /\ t.msg.args = <<rows, t.parsed[1].league_name, t.season>>
    ELSE IF rank_in(rows, t.parsed[1].team_a) = None
    THEN t.msg.kind = "team_not_found"
    ELSE /\ t.msg.kind = "team_finished"
         /\ t.msg.args = <<t.parsed[1].team_a, rank_in(rows, t.parsed[1].team_a),
                           t.parsed[1].league_name, t.season>>

\* C11: a domestic standings turn whose (league, season) key is in the
\* standings cache issues no remote standings fetch, leaves the cache as it
\* was and makes its reply of exactly the cached rows.
C11_Step ==
    (/\ IsDomestic(turn')
     /\ cache_key(turn'.lg_id, turn'.season) \in DOMAIN standings_cache)
    => /\ StandingsFetches(turn'.reqs) = {}
       /\ standings_cache' = standings_cache
       /\ RepliesFrom(turn', json_loads(
              standings_cache[cache_key(turn'.lg_id, turn'.season)]))

C11_ReadThroughHit == [][C11_Step]_vars

\* a hit served from the cache in a turn where the remote had nothing to
\* give for the standings
C11_Witness ==
    /\ IsDomestic(turn) /\ turn.msg.kind = "fmt_standings"
    /\ StandingsFetches(turn.reqs) = {}
    /\ call.op = "answers" /\ call.key.standings = <<>>
    /\ api_memo = EmptyMap

\* C12: a domestic standings turn whose key is absent from the cache and
\* that completes without raising has fetched the standings remotely and
\* replies from the converted rows; after it the cache holds exactly those
\* rows under (league, season), and a next turn for the same league and
\* season fetches nothing and replies from the same rows.
C12_Miss ==
    (/\ IsDomestic(turn') /\ turn'.msg.kind # "raised"
     /\ cache_key(turn'.lg_id, turn'.season) \notin DOMAIN standings_cache)
    => /\ StandingsFetches(turn'.reqs) # {}
       /\ call'.key.standings # <<>>
       /\ load_standings_cache(standings_cache', turn'.lg_id, turn'.season)
             = Some([i \in DOMAIN call'.key.standings[1].league.standings[1] |->
                        convert(call'.key.standings[1].league.standings[1][i])])
       /\ RepliesFrom(turn',
              load_standings_cache(standings_cache', turn'.lg_id, turn'.season)[1])

C12_Next ==
    (/\ IsDomestic(turn) /\ turn.msg.kind # "raised"
     /\ IsDomestic(turn') /\ turn'.lg_id = turn.lg_id /\ turn'.season = turn.season)
    => /\ StandingsFetches(turn'.reqs) = {}
       /\ RepliesFrom(turn',
              load_standings_cache(standings_cache, turn.lg_id, turn.season)[1])

C12_ReadThroughMiss == [][C12_Miss /\ C12_Next]_vars

\* a miss that fetched, stored and replied with the table
C12_Witness ==
    /\ IsDomestic(turn) /\ turn.msg.kind = "fmt_standings"
    /\ StandingsFetches(turn.reqs) # {}
    /\ <<turn.lg_id, turn.season>> \in written
    /\ turn.msg.args[1] = load_standings_cache(standings_cache, turn.lg_id,
                                                turn.season)[1]

(***************************************************************************)
(* Claims about the lru_caches (SpecMemo)                                  *)
(***************************************************************************)
\* C13: against a remote that answers each request the same way every time,
\* a turn of the process with its lru_caches gives the reply, and leaves the
\* tables and PENDING, that the same turn gives with the lru_caches absent;
\* only the number of remote requests may differ.
C13_MemoTransparent ==
    (IsTurn /\ call.op = "plain") => (turn.msg = call.key /\ call.rep)

(***************************************************************************)
(* Claims about remote failures (SpecReadThrough, SpecClarify)             *)
(***************************************************************************)
\* the turn ended in an exception that left handle_query
Raised(t) == t.op = "turn" /\ t.msg.kind = "raised"

\* the last request of the turn went out through _call
LastViaCall(t) == t.reqs # <<>> /\ Len(t.reqs) \in Fetches(t.reqs)

\* C14: whenever a request made through _call fails, with an HTTP error
\* status or with no response at all, what leaves _call is ApiError.
C14_OnlyApiError ==
    (/\ Raised(turn) /\ LastViaCall(turn)
     /\ call.op = "answers" /\ call.key.fail # "")
    => turn.msg.args = <<"ApiError">>

\* C15: a turn in which a remote call fails ends with a message that
\* handle_query returns; no exception leaves handle_query.
C15_FailureIsAMessage ==
    (IsTurn /\ call.op = "answers" /\ call.key.fail # "") => ~Raised(turn)

\* C16: a turn in which a remote call fails leaves the standings cache and
\* the identity caches as they were, and PENDING as it was when the turn
\* began.
C16_Step ==
    (/\ Raised(turn')
     /\ turn'.msg.args[1] \in {"ConnectionError", "UnboundLocalError", "ApiError"})
    => /\ PENDING' = PENDING
       /\ team' = team /\ player' = player
       /\ standings_cache' = standings_cache

C16_FailureKeepsState == [][C16_Step]_vars

(***************************************************************************)
(* Claims about the standings of UEFA competitions and empty responses     *)
(* (SpecReadThrough)                                                       *)
(***************************************************************************)
\* the remote answered every request of the turn
Answered == IsTurn /\ call.op = "answers" /\ call.key.fail = ""

\* C17: a turn whose standings fetch is answered with an empty response list
\* ends with a message; handle_query does not raise.
C17_EmptyIsNotFatal ==
    (/\ Answered /\ StandingsFetches(turn.reqs) # {}
     /\ call.key.standings = <<>>)
    => ~Raised(turn)

\* the standings turn t is for a UEFA competition
IsUefa(t) ==
    t.op = "turn" /\ t.handler = "standings" /\ t.lg_id \in UEFA_IDS

\* the tables get_standings gave the turn t
TablesOf(t) ==
    api_memo[[fn |-> "get_standings", args |-> <<t.lg_id, t.season>>]][1]
        .league.standings

\* C18: a standings query for one team in a UEFA season before 2024, whose
\* standings were fetched and whose bracket has a Final of one fixture and
\* Semi-finals of two, ends with the message of the team's rank (or of the
\* team not being found).
C18_FinalRankingReplies ==
    (/\ Answered /\ IsUefa(turn) /\ turn.season < 2024
     /\ turn.parsed[1].team_a # NoName
     /\ [fn |-> "get_standings", args |-> <<turn.lg_id, turn.season>>]
            \in DOMAIN api_memo
     /\ api_memo[[fn |-> "get_standings", args |-> <<turn.lg_id, turn.season>>]]
            # <<>>
     /\ Len(call.key.bracket[Final]) = 1
     /\ Len(call.key.bracket[SemiFinals]) = 2)
    => turn.msg.kind \in {"team_finished", "team_not_found"}

\* C19: a UEFA standings turn that returns a message renders, for a season
\* from 2024 on, the one table that is the first of the tables fetched (the
\* table itself, or the team's rank in it), and for a season before 2024 the
\* group tables keyed by the group label of their first row; the kind of
\* reply always agrees with the phase of the season.
C19_PhaseAgrees ==
    (IsUefa(turn) /\ ~Raised(turn))
    => IF turn.season >= 2024
       THEN /\ turn.msg.kind \in {"fmt_standings", "team_finished", "team_not_found"}
            /\ RepliesFrom(turn, [i \in DOMAIN TablesOf(turn)[1] |->
                                     convert(TablesOf(turn)[1][i])])
       ELSE /\ turn.msg.kind = "fmt_group_tables"
            /\ DOMAIN turn.msg.args[3]
                  = {TablesOf(turn)[i][1].group : i \in DOMAIN TablesOf(turn)}
            /\ \A i \in DOMAIN TablesOf(turn) :
                  (\A j \in DOMAIN TablesOf(turn) :
                       TablesOf(turn)[j][1].group = TablesOf(turn)[i][1].group
                       => j <= i)
                  => turn.msg.args[3][TablesOf(turn)[i][1].group]
                       = [k \in DOMAIN TablesOf(turn)[i] |->
                             convert(TablesOf(turn)[i][k])]

\* the two group tables of a season before 2024, rendered by group
C19_Witness ==
    /\ IsUefa(turn) /\ turn.season = 2023
    /\ turn.msg.kind = "fmt_group_tables"
    /\ Cardinality(DOMAIN turn.msg.args[3]) = 2

(***************************************************************************)
(* Claims about normalize_season (SpecSeason)                              *)
(***************************************************************************)
\* C20: for every season x, integer or text, that normalize_season makes a
\* year of, normalize_season of that year is the same year.
C20_Idempotent ==
    (call.op = "normalize" /\ call.ret # Some(NoName)) => call.pret = call.ret

\* C21: every year normalize_season returns, for a text or an integer, is a
\* text of exactly four decimal digits.
C21_FourDigits ==
    (call.op = "normalize" /\ call.ret # Some(NoName))
    => (Len(call.ret[1]) = 4 /\ all_digits(call.ret[1]))

\* the listed shapes of a season text: 4 digits and 4 digits, 4 digits and 2
\* digits, 2 digits and 2 digits (a run of non-digits between them), or 4
\* digits alone
ListedShape(t) ==
    \/ season_match(t, 4, 4, 4)
    \/ season_match(t, 4, 2, 2)
    \/ season_match(t, 2, 2, 2)
    \/ (Len(t) = 4 /\ all_digits(t))

\* C22: normalize_season returns none for every text that, trimmed, has none
\* of the listed shapes.
C22_OnlyListedShapes ==
    (/\ call.op = "normalize" /\ call.key.kind = "str"
     /\ ~ListedShape(strip(call.key.text)))
    => call.ret = Some(NoName)

\* the text is a pair of two-digit years YY/YY+1 (or YY-YY+1)
IsPair(t) ==
    /\ Len(t) = 5 /\ t[3] \in {"/", "-"}
    /\ all_digits(SubSeq(t, 1, 2)) /\ all_digits(SubSeq(t, 4, 5))
    /\ digits_value(SubSeq(t, 4, 5)) = (digits_value(SubSeq(t, 1, 2)) + 1) % 100

FieldA == strip_left(call.rows[1])
FieldB == call.rows[3]
FieldC == strip_right(call.rows[5])

\* the text is three fields with the same separator, a dash or a slash
DateShape ==
    call.rows[2] = call.rows[4] /\ call.rows[2] \in {<<"-">>, <<"/">>}

Year4(x) == Len(x) = 4 /\ all_digits(x)
Year2(x) == Len(x) = 2 /\ all_digits(x)
\* the year a two-digit year stands for
Century(x) == IF digits_value(x) <= 68 THEN 2000 + digits_value(x)
              ELSE 1900 + digits_value(x)

\* month m and day d, as written, are a day of the year y
IsDay(y, m, d) ==
    /\ all_digits(m) /\ Len(m) <= 2
    /\ Len(d) <= 2
    /\ \/ all_digits(d)
       \/ (Len(d) = 2 /\ d[1] = " " /\ d[2] \in {"1","2","3","4","5","6","7","8","9"})
    /\ y >= 1
    /\ digits_value(m) \in 1..12
    /\ digits_value(strip_left(d)) \in 1..days_in_month(y, digits_value(m))

Iso(y, m, d) ==
    strftime([ok |-> TRUE, y |-> y, m |-> digits_value(m),
              d |-> digits_value(strip_left(d))])

\* the result the order of the formats gives: year first, then day first,
\* then month first, with a four-digit year; then day first, month first
\* and year first with a two-digit year; none when no reading is a date
FirstReading ==
    IF ~DateShape THEN NoName
    ELSE IF Year4(FieldA) /\ IsDay(digits_value(FieldA), FieldB, FieldC)
    THEN Iso(digits_value(FieldA), FieldB, FieldC)
    ELSE IF Year4(FieldC) /\ IsDay(digits_value(FieldC), FieldB, FieldA)
    THEN Iso(digits_value(FieldC), FieldB, FieldA)
    ELSE IF Year4(FieldC) /\ IsDay(digits_value(FieldC), FieldA, FieldB)
    THEN Iso(digits_value(FieldC), FieldA, FieldB)
    ELSE IF Year2(FieldC) /\ IsDay(Century(FieldC), FieldB, FieldA)
    THEN Iso(Century(FieldC), FieldB, FieldA)
    ELSE IF Year2(FieldC) /\ IsDay(Century(FieldC), FieldA, FieldB)
    THEN Iso(Century(FieldC), FieldA, FieldB)
    ELSE IF Year2(FieldA) /\ IsDay(Century(FieldA), FieldB, FieldC)
    THEN Iso(Century(FieldA), FieldB, FieldC)
    ELSE NoName

\* C24: standardize_date returns the date of the first reading that is a
\* date, in the order year-month-day, day-month-year, month-day-year with a
\* four-digit year and then day-month-year, month-day-year, year-month-day
\* with a two-digit year: a text that is a date both day-first and
\* month-first is read day-first, month-first is used only when day-first is
\* no date, and the result is none when no reading is a date.
C24_FirstFormatWins ==
    call.op = "date" => call.ret = Some(FirstReading)

\* 5-02-2025 is a date day-first and month-first; it is read as 5 February
C24_Witness ==
    /\ call.op = "date"
    /\ call.key = <<"5", "-", "0", "2", "-", "2", "0", "2", "5">>
    /\ call.ret = Some(<<"2", "0", "2", "5", "-", "0", "2", "-", "0", "5">>)

\* C25: for every date that standardizes, deduce_season_from_date returns,
\* as text, the year before the date's year when its month is January to
\* June and the date's year when it is July to December; it returns none
\* when the date does not standardize.
C25_SeasonOfDate ==
    call.op = "date"
    => IF call.ret = Some(NoName) THEN call.pret = Some(NoName)
       ELSE call.pret =
              Some(int_text(IF digits_value(split(call.ret[1], "-")[2]) <= 6
                            THEN digits_value(split(call.ret[1], "-")[1]) - 1
                            ELSE digits_value(split(call.ret[1], "-")[1])))
(***************************************************************************)
(* Claims about the dates and seasons of a turn (SpecClarify)              *)
(***************************************************************************)
\* the query the turn t handles: the parser's, or the stored one under the
\* league the text names
Handles(t) ==
    /\ t.op = "turn"
    /\ \/ t.parser
       \/ t.before # Nothing /\ is_supported_text(t.text)

QueryOf(t) == IF t.parser THEN t.query[1] ELSE t.before[1].parsed

\* date texts that no format of standardize_date reads
UnreadableDates == {<<"1","6",".","0","5",".","2","0","2","5">>}

\* C26: a football turn whose date cannot be standardized, and in which no
\* remote call fails, returns the date-format error, issues no data fetch
\* and leaves PENDING, the standings cache and the identity caches as they
\* were.
C26_Step ==
    (/\ Handles(turn') /\ QueryOf(turn').sport = "football"
     /\ QueryOf(turn').date \in UnreadableDates
     /\ ~Raised(turn'))
    => /\ turn'.msg.kind = "invalid_date"
       /\ Fetches(turn'.reqs) = {}
       /\ PENDING' = PENDING
       /\ standings_cache' = standings_cache
       /\ team' = team /\ player' = player

DateSeason(q) == deduce_season_from_date(q.date)
FieldSeason(q) == normalize_season(q.season)

\* C27: the season a turn hands its handler is the one deduced from the
\* date when the query has a date, even when its season field gives another;
\* without a date it is the normalized season field; and it is 2024 when
\* there is no date and the season field gives none.  The standings fetches
\* of the turn carry that season.
C27_SeasonPrecedence ==
    (Handles(turn) /\ turn.handler # "")
    => /\ (QueryOf(turn).date # NoName /\ DateSeason(QueryOf(turn)) # NoName)
          => turn.season = parse_int(DateSeason(QueryOf(turn)))
       /\ (QueryOf(turn).date = NoName /\ FieldSeason(QueryOf(turn)) # NoName)
          => turn.season = parse_int(FieldSeason(QueryOf(turn)))
       /\ (QueryOf(turn).date = NoName /\ FieldSeason(QueryOf(turn)) = NoName)
          => turn.season = 2024
       /\ \A i \in StandingsFetches(turn.reqs) :
              turn.reqs[i].params.season = turn.season

\* a resumed turn that fetched the standings of 2025 for a stored query with
\* the season 2022/23 and a date of August 2025
C27_Witness ==
    /\ Handles(turn) /\ ~turn.parser /\ turn.handler = "standings"
    /\ QueryOf(turn).date # NoName
    /\ FieldSeason(QueryOf(turn)) = <<"2","0","2","2">>
    /\ turn.season = 2025
    /\ StandingsFetches(turn.reqs) # {}

(***************************************************************************)
(* Claims about the sports and intents of a turn (SpecDispatch)            *)
(***************************************************************************)
\* C28: a parsed sport of basketball, rugby or f1 returns the "coming soon"
\* message; every other sport that is not football, the sport "other" of the
\* parser's sentinel included, returns the scope-rejection message.
C28_SportMessages ==
    (IsTurn /\ turn.parser /\ ~is_football(turn.query[1].sport))
    => turn.msg.kind = IF turn.query[1].sport \in {"basketball", "rugby", "f1"}
                       THEN "coming_soon" ELSE "out_of_scope"

\* the intents handle_query has a handler for
HandledIntents == {"standings", "fixture", "match_events", "player_stats", "bracket"}

\* C29: a football turn whose intent has no handler, whose date (if any) can
\* be standardized and whose league search does not fail returns the
\* "didn't understand" message, issues no data fetch and leaves PENDING, the
\* standings cache, the identity caches and the memos of the fetches and of
\* the team and player lookups as they were.
C29_Step ==
    (/\ Handles(turn') /\ QueryOf(turn').sport = "football"
     /\ QueryOf(turn').intent \notin HandledIntents
     /\ (QueryOf(turn').date = NoName
            \/ standardize_date(QueryOf(turn').date) # NoName)
     /\ ~Raised(turn'))
    => /\ turn'.msg.kind = "didnt_understand"
       /\ turn'.handler = ""
       /\ Fetches(turn'.reqs) = {}
       /\ PENDING' = PENDING
       /\ standings_cache' = standings_cache
       /\ team' = team /\ player' = player
       /\ api_memo' = api_memo
       /\ team_memo' = team_memo /\ player_memo' = player_memo

Carries(s, q) ==
    /\ s.team_a = q.team_a /\ s.team_b = q.team_b
    /\ s.player_name = q.player_name
    /\ s.season = q.season
    /\ s.date = IF q.date = NoName THEN NoName ELSE standardize_date(q.date)
    /\ s.stats_requested = q.stats_requested
    /\ s.player_stats_requested = q.player_stats_requested
    /\ s.which = q.which /\ s.count = q.count

\* C30: whenever PENDING is set, its need is "league", its intent is the
\* intent of the query it stores, the stored sport is football, and the
\* stored query has the teams, player, season, date, stat tokens, mode and
\* count of the query of the turn that stalled; a turn that did not handle a
\* query left PENDING as it found it.
C30_PendingCarriesQuery ==
    PENDING # Nothing
    => /\ PENDING[1].need = "league"
       /\ PENDING[1].intent = PENDING[1].parsed.intent
       /\ is_football(PENDING[1].parsed.sport)
       /\ IsTurn
       /\ IF Handles(turn) THEN Carries(PENDING[1].parsed, QueryOf(turn))
                           ELSE PENDING = turn.before

\* the context stored by the query that supplied teams, player, mode, count
\* and stat tokens
C30_Witness ==
    /\ PENDING # Nothing /\ Handles(turn) /\ turn.parser
    /\ PENDING[1].parsed.team_a = Mu /\ PENDING[1].parsed.team_b = Ch
    /\ PENDING[1].parsed.player_name = Ha
    /\ PENDING[1].parsed.which = ModeLast /\ PENDING[1].parsed.count = 5
    /\ PENDING[1].parsed.stats_requested # <<>>

(***************************************************************************)
(* Claims about the handlers of a turn (SpecDispatch)                      *)
(***************************************************************************)
\* the requests of the turn t sent to the endpoint ep, searches and fetches
RequestsTo(t, ep) == {i \in DOMAIN t.reqs : t.reqs[i].ep = ep}

\* a player_stats turn whose query names no league, or a league the search
\* does not find
PlayerTurnWithoutLeague(t) ==
    /\ Handles(t) /\ ~Raised(t)
    /\ t.handler = "player_stats"
    /\ t.lg_id = None

\* C31: a player_stats turn whose league is missing or does not resolve
\* sets PENDING with need league_for_player, returns the clarification
\* prompt and sends neither the player search nor the player-stats fetch.
C31_PlayerStall ==
    PlayerTurnWithoutLeague(turn)
    => /\ turn.msg.kind = "ask_for_league"
       /\ PENDING # Nothing
       /\ PENDING[1].need = "league_for_player"
       /\ RequestsTo(turn, "players") = {}

(***************************************************************************)
(* Claims about the fixture branch (SpecFixture)                           *)
(***************************************************************************)
\* a turn that ran _handle_fixture, and the mode it normalized to
FixtureTurn(t) == Handles(t) /\ t.handler = "fixture"
ModeOf(t) == fixture_mode(QueryOf(t).which, QueryOf(t).team_b)

\* C32: in the fixture branch the normalized mode is one of next, last,
\* specific, season, team_next, team_last, and it is team_next or team_last
\* whenever the query names one team only, whatever mode came in.
C32_OneTeamMode ==
    FixtureTurn(turn)
    => /\ ModeOf(turn) \in ALLOWED
       /\ QueryOf(turn).team_b = NoName
          => ModeOf(turn) \in {ModeTeamNext, ModeTeamLast}

\* the request of infer_league_from_h2h among the requests of the turn t
\* (the one to the general listing that carries an h2h), and the fetches of
\* fixtures besides it
InferRequests(t) ==
    {i \in Fetches(t.reqs) : /\ t.reqs[i].ep = "fixtures"
                             /\ "h2h" \in DOMAIN t.reqs[i].params}
FixtureFetches(t) ==
    {i \in Fetches(t.reqs) : t.reqs[i].ep \in {"fixtures", "fixtures/headtohead"}}
    \ InferRequests(t)

\* the id the lookup of the team name n gave, None when it found none
IdOf(n) == IF <<n, None, None>> \in DOMAIN team_memo
           THEN team_memo[<<n, None, None>>] ELSE None

\* a turn of the fixture branch about two teams, in a head-to-head mode
HeadToHeadTurn(t) ==
    /\ FixtureTurn(t) /\ ~Raised(t)
    /\ QueryOf(t).team_b # NoName
    /\ ModeOf(t) \notin {ModeTeamNext, ModeTeamLast}

\* the league the most recent meeting gave in the turn, None when the turn
\* had a league id, a team did not resolve or the remote listed no meeting
Inferred(t) ==
    IF /\ t.lg_id = None
       /\ IdOf(QueryOf(t).team_a) # None /\ IdOf(QueryOf(t).team_b) # None
       /\ call.key.infer # <<>>
    THEN call.key.infer[1].league.id ELSE None

ChoosesByDate(t) ==
    /\ HeadToHeadTurn(t) /\ ModeOf(t) = ModeSpecific
    /\ QueryOf(t).date # NoName
    /\ t.msg.kind \in {"fmt_fixture_row", "no_fixture_found"}

\* C34: a specific-fixture turn whose query has a date chooses the fixtures
\* whose date starts with the standardized date, in whatever accepted format
\* the date was written: it shows the first of them, or says that none was
\* found when there is none.
C34_SelectsByIsoDate ==
    (ChoosesByDate(turn) /\ call.op = "answers")
    => turn.msg =
         IF on_date(call.key.fixtures, standardize_date(QueryOf(turn).date)) = <<>>
         THEN [kind |-> "no_fixture_found", args |-> <<>>]
         ELSE [kind |-> "fmt_fixture_row",
               args |-> <<on_date(call.key.fixtures,
                                  standardize_date(QueryOf(turn).date))[1]>>]

(***************************************************************************)
(* Claims about the sections of a match_events reply (SpecMemo)            *)
(***************************************************************************)
\* the stat tokens of the turn's query, lower-cased
Want(t) == [i \in DOMAIN QueryOf(t).stats_requested |->
                lower(QueryOf(t).stats_requested[i])]
WantsOneOf(t, tokens) == \E i \in DOMAIN Want(t) : Want(t)[i] \in tokens

\* the four event tokens, and what each asks of an event
EventTokens ==
    {<<"y","e","l","l","o","w","_","c","a","r","d","s">>,
     <<"r","e","d","_","c","a","r","d","s">>,
     <<"s","u","b","s","t","i","t","u","t","i","o","n","s">>,
     <<"g","o","a","l","s">>}
Asks(w, ev) ==
    \/ /\ w = <<"y","e","l","l","o","w","_","c","a","r","d","s">>
       /\ ev.type = <<"C","a","r","d">>
       /\ startswith(ev.detail, <<"Y","e","l","l","o","w">>)
    \/ /\ w = <<"r","e","d","_","c","a","r","d","s">>
       /\ ev.type = <<"C","a","r","d">>
       /\ startswith(ev.detail, <<"R","e","d">>)
    \/ w = <<"s","u","b","s","t","i","t","u","t","i","o","n","s">>
          /\ ev.type = <<"s","u","b","s","t">>
    \/ w = <<"g","o","a","l","s">> /\ ev.type = <<"G","o","a","l">>

\* the memo keys of the events and of the statistics of a fixture
EventsKeys == {k \in DOMAIN api_memo : k.fn = "get_match_events"}
StatisticsKeys == {k \in DOMAIN api_memo : k.fn = "get_fixture_statistics"}

\* C35: a match_events reply has the events section exactly when no stat
\* token was requested or one of them is an event token, and the statistics
\* section exactly when no token was requested or one of them is in the
\* numeric allow-list; the statistics are requested in no other case; and
\* when tokens were requested the events shown are, in order, the events
\* of the fixture that one of the requested tokens asks for.
C35_Sections ==
    (IsTurn /\ turn.msg.kind = "match_events")
    => /\ (turn.msg.args[1] # Nothing)
            <=> (Want(turn) = <<>> \/ WantsOneOf(turn, EventTokens))
       /\ (turn.msg.args[2] # Nothing)
            <=> (Want(turn) = <<>> \/ WantsOneOf(turn, NUMERIC_MAP))
       /\ (Want(turn) = <<>> \/ WantsOneOf(turn, NUMERIC_MAP))
            => StatisticsKeys # {}
       /\ RequestsTo(turn, "fixtures/statistics") # {}
            => (Want(turn) = <<>> \/ WantsOneOf(turn, NUMERIC_MAP))
       /\ (Want(turn) # <<>> /\ turn.msg.args[1] # Nothing)
            => \E k \in EventsKeys :
                  turn.msg.args[1][1] =
                      SelectSeq(api_memo[k],
                                LAMBDA ev : \E i \in DOMAIN Want(turn) :
                                                Asks(Want(turn)[i], ev))

\* a reply to a query for yellow cards and fouls: the yellow card alone of
\* the four events, and the statistics
C35_Witness ==
    /\ IsTurn /\ turn.msg.kind = "match_events"
    /\ Len(Want(turn)) = 2
    /\ turn.msg.args[1] # Nothing /\ Len(turn.msg.args[1][1]) = 1
    /\ turn.msg.args[2] # Nothing
    /\ RequestsTo(turn, "fixtures/statistics") # {}

(***************************************************************************)
(* Claims about the bracket (SpecClarify)                                  *)
(***************************************************************************)
\* a turn that ran _handle_bracket to its reply
BracketTurn(t) == Handles(t) /\ t.handler = "bracket" /\ ~Raised(t)

\* of the stage names the remote lists, those holding "Final" or a hyphen
KnockoutNames(stage_names) ==
    {stage_names[i] : i \in {j \in DOMAIN stage_names :
                                \/ contains(stage_names[j], <<"F","i","n","a","l">>)
                                \/ contains(stage_names[j], <<"-">>)}}

\* C36: a bracket turn for a UEFA league returns a bracket whose keys are
\* the stage names of the stages request that hold "Final" or a hyphen,
\* each with the fixtures the remote lists for that stage, after one stages
\* request for the league and season and fixture requests for those stages
\* only; a bracket turn for any other league, or for none, sends no stages
\* and no fixtures request.
C36_Bracket ==
    BracketTurn(turn)
    => /\ turn.lg_id \in UEFA_IDS
          => /\ turn.msg.kind = "fmt_bracket"
             /\ \E st \in ClarifyAnswers.stages, fx \in ClarifyAnswers.bracket :
                   /\ DOMAIN turn.msg.args[1] = KnockoutNames(st)
                   /\ \A k \in KnockoutNames(st) : turn.msg.args[1][k] = fx[k]
                   /\ \A i \in RequestsTo(turn, "fixtures") :
                         /\ turn.reqs[i].params.stage \in KnockoutNames(st)
                         /\ turn.reqs[i].params.league = turn.lg_id
                         /\ turn.reqs[i].params.season = turn.season
             /\ Cardinality(RequestsTo(turn, "fixtures/stages")) = 1
             /\ \A i \in RequestsTo(turn, "fixtures/stages") :
                   turn.reqs[i].params = [league |-> turn.lg_id,
                                          season |-> turn.season]
       /\ turn.lg_id \notin UEFA_IDS
          => /\ RequestsTo(turn, "fixtures/stages") = {}
             /\ RequestsTo(turn, "fixtures") = {}

\* the bracket of the Champions League: the semi-finals and the final, not
\* the round of 16
C36_Witness ==
    /\ BracketTurn(turn) /\ turn.lg_id = 2
    /\ turn.msg.kind = "fmt_bracket"
    /\ DOMAIN turn.msg.args[1] = {SemiFinals, Final}
    /\ RequestsTo(turn, "fixtures") # {}

(***************************************************************************)
(* Claims about the requests for fixtures (SpecFixture)                    *)
(***************************************************************************)
\* the request req is the one the claim gives for the arguments a of
\* get_fixtures
Routed(a, req) ==
    IF a.fixture_id # None
    THEN req.ep = "fixtures" /\ req.params = [id |-> a.fixture_id]
    ELSE IF a.h2h # NoName
    THEN /\ req.ep = "fixtures/headtohead"
         /\ "h2h" \in DOMAIN req.params /\ req.params.h2h = a.h2h
    ELSE req.ep = "fixtures" /\ "h2h" \notin DOMAIN req.params

\* C37: every call of get_fixtures is sent as the claim routes it: by the
\* fixture id alone when one is given; otherwise to the head-to-head
\* endpoint with the h2h value whenever one is given, whatever it holds;
\* and to the general listing only when neither is given.
C37_Routing ==
    \A k \in DOMAIN api_memo :
        k.fn = "get_fixtures" => Routed(k.args, fixtures_request(k.args))

(***************************************************************************)
(* Claims about resuming a stalled query (SpecFixture)                     *)
(***************************************************************************)
\* what a fresh turn on the query q does from the present state when the
\* remote answers as e
Fresh(q, e) == handle_query([ctx EXCEPT !.PENDING = Nothing], NoName, q, e)

\* the turn t stalled on the query it parsed
StalledOn(t) ==
    /\ t.op = "turn" /\ t.parser /\ t.msg.kind = "ask_for_league"
    /\ PENDING # Nothing

\* C38: a turn that resumes a stalled query Q under the league X sends the
\* requests, and uses the season and the date, of a fresh turn on Q with
\* league_name = X taken from the same state.
C38_Step ==
    (/\ StalledOn(turn)
     /\ turn'.op = "turn" /\ ~turn'.parser /\ Handles(turn')
     /\ call'.op = "answers")
    => \A Q \in {[turn.query[1] EXCEPT !.league_name = canonical(turn'.text)]} :
          /\ turn'.reqs = Fresh(Q, call'.key).c.reqs
          /\ turn'.season = Fresh(Q, call'.key).season
          /\ turn'.date = Fresh(Q, call'.key).date

C38_ResumeIsFresh == [][C38_Step]_vars

(***************************************************************************)
(* Claims about the parser and a pending question (SpecClarify)            *)
(***************************************************************************)
C39_Step ==
    turn'.op = "turn"
    => /\ turn'.parser <=> (PENDING = Nothing)
       /\ (PENDING # Nothing /\ ~is_supported_text(turn'.text))
          => /\ ~turn'.parser
             /\ turn'.reqs = <<>>
             /\ PENDING' = PENDING

\* C39: on every turn the parser runs if and only if PENDING is null at the
\* start of the turn; while a context is pending, a turn whose trimmed text
\* is not, in any case, a supported league name runs no parser, sends no
\* request and leaves PENDING as it was.
C39_ParserIffNoPending == [][C39_Step]_vars

C39_Witness ==
    /\ IsTurn /\ turn.before # Nothing /\ ~is_supported_text(turn.text)
    /\ ~turn.parser /\ turn.reqs = <<>> /\ PENDING = turn.before

(***************************************************************************)
(* Claims about the names the identity cache keeps (SpecResolver)          *)
(***************************************************************************)
\* the table of the lookup recorded in call
TableOf(op) == IF op = "team" THEN team ELSE player

\* C40: after team_name_to_id(n) or player_name_to_id(n) has returned an id
\* that came from the remote search, the persistent cache holds an entry
\* whose name equals n in any case, so that the same lookup with the memo
\* empty is served from the cache.
C40_CachedUnderName ==
    (IsLookup /\ call.nreq = 1 /\ call.ret # Some(None))
        => select_ids(TableOf(call.op), call.key[1]) # {}
====
